---- MODULE Spec2Model ----
(***************************************************************************)
(* State-machine model of the DBpedia Explorer single-page application:    *)
(* the extension registry, the three pages (search, category, entity) with *)
(* their fetch effects, the sidebar extensions and the network requests in *)
(* flight.  One action models one event handler or promise continuation    *)
(* together with the render and the effects React runs after it.           *)
(***************************************************************************)
EXTENDS Integers, Sequences, FiniteSets, TLC

VARIABLES
    \* extensions/registry.ts
    extensions,      \* const extensions: Extension[]
    startupPc,       \* how many registerExtension calls of extensions/index.tsx have run
    registered,      \* history: every record passed to registerExtension, in call order
    queried,         \* the value returned by the last getExtensions call
    \* environment
    apiBase,         \* import.meta.env.VITE_API_BASE ("" when not configured)
    route,           \* the matched <Route>: [page, id]
    inflight,        \* requests issued and not yet settled
    lastOp,          \* history: the handler or continuation that ran last
    lastIssued,      \* history: the requests that handler issued, in order
    lastSettled,     \* history: the request the last continuation belonged to
    head,            \* document.head: its <script type="application/ld+json"> children
    dispatched,      \* history: detail.types of the "wadev:typeFilterChanged"
                     \* event the last handler dispatched, Null if it dispatched none
    \* pages/SearchPage.tsx
    qInput, submittedQ, kind, spLoading, spErr, results, page,
    total, entityTotal, categoryTotal,
    \* pages/CategoryPage.tsx
    cat, entities, cpLoading, entitiesLoading, cpErr, selectedTypes,
    \* extensions/typeFacets.tsx (state of the mounted widget)
    facets, tfErr, tfLoading, selected,
    \* extensions/CategoryMap.tsx
    cmCat, cmErr,
    \* pages/EntityPage.tsx
    ent, epLoading, epErr,
    \* extensions/RelatedEntities.tsx
    items, reLoading, reErr,
    \* lib/codec.ts: a URI, the identifier computed from it, the URI decoded back
    codecUri, codecId, codecOut,
    \* lib/api.ts: one call of a client function, the requests it sent, the
    \* settled state of its promise, the response it received
    apiCall, apiSent, apiResult, apiResponse,
    \* extensions/CategoryMap.tsx: the category given to the layout and its graph
    layoutCat, graph,
    \* components/ShareBar.tsx: the page address the mounted widget shares, its
    \* QR data URL and whether QRCode.toDataURL is pending; the pending
    \* clipboard writes, the clipboard, the alerts shown; the last step
    sbHref, qr, qrPending, copyPending, clipboard, alerts, sbLast

registryVars == <<extensions, startupPc, registered, queried>>
envVars      == <<apiBase, route>>
netVars      == <<inflight, lastOp, lastIssued, lastSettled, dispatched>>
searchVars   == <<qInput, submittedQ, kind, spLoading, spErr, results, page,
                  total, entityTotal, categoryTotal>>
categoryVars == <<cat, entities, cpLoading, entitiesLoading, cpErr, selectedTypes>>
facetsVars   == <<facets, tfErr, tfLoading, selected>>
mapVars      == <<cmCat, cmErr>>
entityVars   == <<ent, epLoading, epErr>>
relatedVars  == <<items, reLoading, reErr>>
categoryTree == <<categoryVars, facetsVars, mapVars>>
entityTree   == <<entityVars, relatedVars>>
\* everything a page or a widget renders from
uiVars       == <<searchVars, categoryTree, entityTree>>
\* the running application
appVars      == <<registryVars, envVars, netVars, uiVars, head>>
\* the library functions applied on their own
codecVars    == <<codecUri, codecId, codecOut>>
apiVars      == <<apiCall, apiSent, apiResult, apiResponse>>
layoutVars   == <<layoutCat, graph>>
shareVars    == <<sbHref, qr, qrPending, copyPending, clipboard, alerts, sbLast>>
libVars      == <<codecVars, apiVars, layoutVars, shareVars>>
vars == <<appVars, libVars>>

----------------------------------------------------------------------------
(* Bounds of the model *)

\* most registrations beyond the three of extensions/index.tsx
MaxExtra == 2
\* most superseded requests still in flight after a user action on the
\* search page, on the category page, on the entity page, and after a
\* navigation from one page to another
MaxStaleSearch == 1
MaxStaleCategory == 1
MaxStaleEntity == 2
MaxStaleNav == 1

----------------------------------------------------------------------------
(* Generic values *)

Null == <<>>
Some(x) == <<x>>

Max(a, b) == IF a >= b THEN a ELSE b
Min(a, b) == IF a <= b THEN a ELSE b

\* Math.ceil(a / b) for a >= 0, b > 0
Ceil(a, b) == (a + b - 1) \div b

\* String.prototype.trim on a string held as a sequence of characters
RECURSIVE TrimStart(_)
TrimStart(s) == IF s # <<>> /\ Head(s) = " " THEN TrimStart(Tail(s)) ELSE s

RECURSIVE TrimEnd(_)
TrimEnd(s) ==
    IF s # <<>> /\ s[Len(s)] = " " THEN TrimEnd(SubSeq(s, 1, Len(s) - 1)) ELSE s

Trim(s) == TrimEnd(TrimStart(s))

\* String(e) of an Error whose message is `${what}: ${status}`
StringOfError(what, status) == Some(<<"Error", what, status>>)

\* the status codes a failing response carries in the model
FailStatuses == {500}

----------------------------------------------------------------------------
(* lib/useJsonLd.ts and the useJsonLd calls of the category and entity page *)

\* JSON.stringify of an object kept as its entries <<name, Some(value)>> in
\* order, <<name, Null>> for the value undefined: such an entry is left out
DefinedEntry(e) == e[2] # Null
JsonStringify(data) == SelectSeq(data, DefinedEntry)

\* document.getElementById: the position of the first element with the id,
\* 0 when there is none
getElementById(h, elementId) ==
    IF \E i \in DOMAIN h : h[i].id = elementId
    THEN CHOOSE i \in DOMAIN h :
            h[i].id = elementId /\ \A j \in 1..(i - 1) : h[j].id # elementId
    ELSE 0

\* a cleanup that leaves the element in place
JsonLdCleanup_keep(h, key) == h

\* the cleanup of the effect: const el = getElementById(scriptId); if (el) el.remove()
JsonLdCleanup(h, key) ==
    LET i == getElementById(h, <<"jsonld-", key>>)
    IN  IF i = 0 THEN h ELSE SubSeq(h, 1, i - 1) \o SubSeq(h, i + 1, Len(h))

\* the body of the effect: find or create the script, set its textContent
JsonLdEffect(h, data, key) ==
    LET scriptId == <<"jsonld-", key>>
        i == getElementById(h, scriptId)
    IN  IF i = 0
        THEN Append(h, [id |-> scriptId, type |-> "application/ld+json",
                        textContent |-> JsonStringify(data)])
        ELSE [h EXCEPT ![i].textContent = JsonStringify(data)]

\* the arguments of the useJsonLd call of CategoryPage and of EntityPage
LoadingJsonLd ==
    <<<<"@context", Some("https://schema.org")>>, <<"@type", Some("WebPage")>>,
      <<"name", Some("Loading")>>>>
CategoryJsonLd(c, href) ==
    [data |-> IF c = Null THEN LoadingJsonLd
              ELSE <<<<"@context", Some("https://schema.org")>>,
                     <<"@type", Some("CollectionPage")>>,
                     <<"name", Some(c[1].label)>>, <<"url", Some(href)>>,
                     <<"about", Some(c[1].uri)>>>>,
     id |-> <<"category-", IF c = Null THEN "loading" ELSE c[1].id>>]
EntityJsonLd(e, href) ==
    [data |-> IF e = Null THEN LoadingJsonLd
              ELSE <<<<"@context", Some("https://schema.org")>>,
                     <<"@type", Some("Thing")>>,
                     <<"name", Some(e[1].label)>>, <<"url", Some(href)>>,
                     <<"sameAs", Some(e[1].uri)>>,
                     \* ent.abstract ?? undefined
                     <<"description", e[1].abstract>>>>,
     id |-> <<"entity-", IF e = Null THEN "loading" ELSE e[1].id>>]

\* the useJsonLd call of the mounted content page, Null on the search page
PageJsonLd ==
    IF route.page = "category" THEN Some(CategoryJsonLd(cat, route))
    ELSE IF route.page = "entity" THEN Some(EntityJsonLd(ent, route))
    ELSE Null

\* the useJsonLd effect in the commit after a handler.  `data` is a new
\* object in every render of the page, so the effect of the previous render
\* is cleaned up and its body runs again; a page that unmounts only cleans
\* up, a page that mounts only runs the body.  Cleanups run before bodies.
JsonLdCommit(h, old, new) ==
    LET cleaned == IF old = Null THEN h ELSE JsonLdCleanup(h, old[1].id)
    IN  IF new = Null THEN cleaned ELSE JsonLdEffect(cleaned, new[1].data, new[1].id)

\* no content page is mounted, or the handler changed neither the route nor
\* the state of the mounted page: the page is not rendered and no useJsonLd
\* effect runs
JsonLdEffects ==
    IF \/ route.page = "search" /\ route'.page = "search"
       \/ /\ route' = route
          /\ route.page = "category" => UNCHANGED <<cat, entities, cpLoading,
                                                    entitiesLoading, cpErr, selectedTypes>>
          /\ route.page = "entity" => UNCHANGED <<ent, epLoading, epErr>>
    THEN head' = head
    ELSE head' = JsonLdCommit(head, PageJsonLd, PageJsonLd')

----------------------------------------------------------------------------
(* Extension registry: extensions/registry.ts and extensions/index.tsx *)

ExtensionSlot == {"category.sidebar", "entity.sidebar"}

TypeFacetsExt ==
    [id |-> "ext-type-facets", title |-> "Type facets", slot |-> "category.sidebar"]
CategoryMapExt ==
    [id |-> "category.map", title |-> "Category map", slot |-> "category.sidebar"]
RelatedEntitiesExt ==
    [id |-> "entity.related", title |-> "Related entities", slot |-> "entity.sidebar"]

\* the registerExtension calls of extensions/index.tsx, in source order
StartupExtensions == <<TypeFacetsExt, CategoryMapExt, RelatedEntitiesExt>>

\* records a caller may register besides those: one of them re-uses an identifier
OtherExtensions ==
    { [id |-> i, title |-> "Plugin", slot |-> s] :
        i \in {"ext-type-facets", "plugin"}, s \in ExtensionSlot }

\* extensions.push(ext), dropping a record whose identifier is already present
registerExtension_dedup(ext) ==
    /\ extensions' = IF \E i \in DOMAIN extensions : extensions[i].id = ext.id
                     THEN extensions
                     ELSE Append(extensions, ext)
    /\ registered' = Append(registered, ext)

\* extensions.unshift(ext)
registerExtension_unshift(ext) ==
    /\ extensions' = <<ext>> \o extensions
    /\ registered' = Append(registered, ext)

\* registerExtension(ext): extensions.push(ext)
registerExtension(ext) ==
    /\ extensions' = Append(extensions, ext)
    /\ registered' = Append(registered, ext)

\* Array.prototype.filter with the predicate (e) => e.slot === slot
RECURSIVE FilterBySlot(_, _)
FilterBySlot(arr, slot) ==
    IF arr = <<>> THEN <<>>
    ELSE IF Head(arr).slot = slot
         THEN <<Head(arr)>> \o FilterBySlot(Tail(arr), slot)
         ELSE FilterBySlot(Tail(arr), slot)

\* the filter with the test inverted
getExtensions_other(slot) == FilterBySlot(extensions, CHOOSE s \in ExtensionSlot : s # slot)

\* getExtensions(slot): extensions.filter((e) => e.slot === slot)
getExtensions(slot) == FilterBySlot(extensions, slot)

\* import "./extensions": the next registerExtension call of extensions/index.tsx
ImportExtensions ==
    /\ startupPc < Len(StartupExtensions)
    /\ registerExtension(StartupExtensions[startupPc + 1])
    /\ startupPc' = startupPc + 1
    /\ lastOp' = "registerExtension"
    /\ dispatched' = Null
    /\ UNCHANGED <<libVars, queried, envVars, inflight, lastIssued, lastSettled, uiVars>>
    /\ JsonLdEffects

\* a later registerExtension call by any other module
RegisterOther(ext) ==
    /\ startupPc = Len(StartupExtensions)
    /\ Len(registered) < Len(StartupExtensions) + MaxExtra
    /\ registerExtension(ext)
    /\ lastOp' = "registerExtension"
    /\ dispatched' = Null
    /\ UNCHANGED <<libVars, startupPc, queried, envVars, inflight, lastIssued, lastSettled,
                   uiVars>>
    /\ JsonLdEffects

\* a getExtensions(slot) call, as at the <aside> of a page
QueryExtensions(slot) ==
    /\ queried' = [slot |-> slot, result |-> getExtensions(slot)]
    /\ lastOp' = "getExtensions"
    /\ dispatched' = Null
    /\ UNCHANGED <<libVars, extensions, startupPc, registered, envVars, inflight, lastIssued,
                   lastSettled, uiVars>>
    /\ JsonLdEffects

----------------------------------------------------------------------------
(* Requests in flight *)

Pages == {"search", "category", "entity"}

\* one request: the fetch site that issued it, its parameters, the `cancelled`
\* flag of the effect closure that issued it, and (history) whether a later
\* trigger or an unmount of its fetch site has superseded it
Req(site, path, id, q, k, offset, types) ==
    [site |-> site, path |-> path, id |-> id, q |-> q, kind |-> k,
     offset |-> offset, types |-> types, cancelled |-> FALSE, stale |-> FALSE]

FetchSites == {"search", "category", "entities", "facets", "map", "entity", "related"}

\* the fetch sites of a page and of the widgets in its sidebar
SitesOf(p) ==
    CASE p = "search" -> {"search"}
      [] p = "category" -> {"category", "entities", "facets", "map"}
      [] p = "entity" -> {"entity", "related"}

\* the cleanup of a fetch site's current effect: cancelled = true
Cleanup(reqs, site) ==
    { IF r.site = site THEN [r EXCEPT !.cancelled = TRUE] ELSE r : r \in reqs }

\* the cleanups of several fetch sites
CleanupAll(reqs, sites) ==
    { IF r.site \in sites THEN [r EXCEPT !.cancelled = TRUE] ELSE r : r \in reqs }

\* history: every request of the site issued so far is superseded
Supersede(reqs, site) ==
    { IF r.site = site THEN [r EXCEPT !.stale = TRUE] ELSE r : r \in reqs }

SupersedeAll(reqs, sites) ==
    { IF r.site \in sites THEN [r EXCEPT !.stale = TRUE] ELSE r : r \in reqs }

\* a request whose effect was cleaned up in the commit that issued it
Dropped(r) == [r EXCEPT !.cancelled = TRUE, !.stale = TRUE]

\* the bound on a user action: it leaves at most `bound` superseded requests
\* in flight
WithinBound(reqs, bound) == Cardinality({ r \in reqs : r.stale }) <= bound

\* history: whether the request a continuation belonged to was superseded
Settled(r) == IF r.stale THEN "stale" ELSE "live"

----------------------------------------------------------------------------
(* pages/SearchPage.tsx *)

LIMIT == 20

SearchKinds == {"all", "entity", "category"}

\* the texts the user types: empty, blank, one character padded with blanks,
\* and two queries of at least two characters, one of them padded
TypedTexts ==
    { <<>>, <<" ", "a", " ">>, <<"a", "b">>, <<" ", "c", "d", " ">> }

\* the backend's totals for a query: entity and category hits
BackendEntityTotal(q) == IF q = <<"a", "b">> THEN 30 ELSE 0
BackendCategoryTotal(q) == IF q = <<"a", "b">> THEN 15 ELSE 0
BackendTotal(q, k) ==
    CASE k = "entity" -> BackendEntityTotal(q)
      [] k = "category" -> BackendCategoryTotal(q)
      [] OTHER -> BackendEntityTotal(q) + BackendCategoryTotal(q)

\* the SearchResponse of GET /api/search?q=&kind=&limit=&offset=
NoResults == [q |-> <<>>, kind |-> "", offset |-> 0, count |-> 0]
SearchResponse(q, k, limit, offset) ==
    LET n == Min(limit, Max(0, BackendTotal(q, k) - offset))
    IN [ results |-> IF n = 0 THEN NoResults
                     ELSE [q |-> q, kind |-> k, offset |-> offset, count |-> n],
         total |-> BackendTotal(q, k),
         entityTotal |-> BackendEntityTotal(q),
         categoryTotal |-> BackendCategoryTotal(q) ]

SearchReq(q, k, offset) == Req("search", "/api/search", "", q, k, offset, <<>>)

\* submittedQ.trim().length < 1
ShortQuery_empty(q) == Len(Trim(q)) < 1

\* submittedQ.trim().length < 2
ShortQuery(q) == Len(Trim(q)) < 2

\* Math.max(1, Math.floor(total / LIMIT))
totalPages_floor == Max(1, total \div LIMIT)

\* const totalPages = Math.max(1, Math.ceil(total / LIMIT))
totalPages == Max(1, Ceil(total, LIMIT))

\* The render after a handler left the state (q1, k1, p1), and the effects
\* that follow it.  The kind effect calls setPage(1) when kind changed; the
\* fetch effect runs when submittedQ, kind or page changed: the cleanup of its
\* previous run, then its body.  When the kind effect changed the page, a
\* second render follows and the fetch effect runs once more.
SearchCommit(q1, k1, p1) ==
    LET kindChanged == k1 # kind
        depsChanged == <<q1, k1, p1>> # <<submittedQ, kind, page>>
        again == kindChanged /\ p1 # 1
        short == ShortQuery(q1)
        r1 == SearchReq(Trim(q1), k1, (p1 - 1) * LIMIT)
        r2 == SearchReq(Trim(q1), k1, 0)
        old == Supersede(Cleanup(inflight, "search"), "search")
        first == IF short THEN old ELSE old \cup {r1}
        second == IF short THEN first
                  ELSE Supersede(Cleanup(first, "search"), "search") \cup {r2}
    IN  /\ submittedQ' = q1
        /\ kind' = k1
        /\ page' = IF kindChanged THEN 1 ELSE p1
        /\ IF ~depsChanged
           THEN /\ UNCHANGED <<inflight, spLoading, spErr, results,
                               total, entityTotal, categoryTotal>>
                /\ lastIssued' = <<>>
           ELSE /\ inflight' = IF again THEN second ELSE first
                /\ lastIssued' = IF short THEN <<>>
                                 ELSE IF again THEN <<r1, r2>> ELSE <<r1>>
                /\ spErr' = Null
                /\ IF short
                   THEN /\ results' = NoResults
                        /\ total' = 0
                        /\ entityTotal' = 0
                        /\ categoryTotal' = 0
                        /\ UNCHANGED spLoading
                   ELSE /\ spLoading' = TRUE
                        /\ UNCHANGED <<results, total, entityTotal, categoryTotal>>
        /\ WithinBound(inflight', MaxStaleSearch)

\* <input onChange>, also starting a search as App.tsx does
SetQInput_live(v) ==
    /\ route.page = "search"
    /\ v # qInput
    /\ qInput' = v
    /\ SearchCommit(v, kind, page)
    /\ lastOp' = "setQInput"
    /\ dispatched' = Null
    /\ lastSettled' = "none"
    /\ UNCHANGED <<libVars, registryVars, envVars, categoryTree, entityTree>>
    /\ JsonLdEffects

\* <input onChange={(e) => setQInput(e.target.value)}>
SetQInput(v) ==
    /\ route.page = "search"
    /\ v # qInput
    /\ qInput' = v
    /\ lastOp' = "setQInput"
    /\ dispatched' = Null
    /\ lastIssued' = <<>>
    /\ lastSettled' = "none"
    /\ UNCHANGED <<libVars, registryVars, envVars, inflight, submittedQ, kind, spLoading,
                   spErr, results, page, total, entityTotal, categoryTotal,
                   categoryTree, entityTree>>
    /\ JsonLdEffects

\* doSearch, from the form's onSubmit (the button or Enter)
DoSearch ==
    /\ route.page = "search"
    /\ SearchCommit(Trim(qInput), kind, 1)
    /\ lastOp' = "doSearch"
    /\ dispatched' = Null
    /\ lastSettled' = "none"
    /\ UNCHANGED <<libVars, registryVars, envVars, qInput, categoryTree, entityTree>>
    /\ JsonLdEffects

\* <select onChange> that also takes the typed text as the submitted query
SetKind_resubmit(k) ==
    /\ route.page = "search"
    /\ k # kind
    /\ SearchCommit(Trim(qInput), k, page)
    /\ lastOp' = "setKind"
    /\ dispatched' = Null
    /\ lastSettled' = "none"
    /\ UNCHANGED <<libVars, registryVars, envVars, qInput, categoryTree, entityTree>>
    /\ JsonLdEffects

\* <select onChange={(e) => setKind(e.target.value)}>
SetKind(k) ==
    /\ route.page = "search"
    /\ k # kind
    /\ SearchCommit(submittedQ, k, page)
    /\ lastOp' = "setKind"
    /\ dispatched' = Null
    /\ lastSettled' = "none"
    /\ UNCHANGED <<libVars, registryVars, envVars, qInput, categoryTree, entityTree>>
    /\ JsonLdEffects

\* the pagination block is rendered
PaginationShown == ~ShortQuery(submittedQ) /\ total > LIMIT

\* the Prev button: setPage((p) => Math.max(1, p - 1))
PrevPage ==
    /\ route.page = "search"
    /\ PaginationShown
    /\ ~(page <= 1 \/ spLoading)
    /\ SearchCommit(submittedQ, kind, Max(1, page - 1))
    /\ lastOp' = "prevPage"
    /\ dispatched' = Null
    /\ lastSettled' = "none"
    /\ UNCHANGED <<libVars, registryVars, envVars, qInput, categoryTree, entityTree>>
    /\ JsonLdEffects

\* the Next button: setPage((p) => Math.min(totalPages, p + 1))
NextPage ==
    /\ route.page = "search"
    /\ PaginationShown
    /\ ~(page >= totalPages \/ spLoading)
    /\ SearchCommit(submittedQ, kind, Min(totalPages, page + 1))
    /\ lastOp' = "nextPage"
    /\ dispatched' = Null
    /\ lastSettled' = "none"
    /\ UNCHANGED <<libVars, registryVars, envVars, qInput, categoryTree, entityTree>>
    /\ JsonLdEffects

\* the continuations of search(...), committing whether or not cancelled is set
SearchSettle_nocheck(r, status) ==
    /\ r \in inflight
    /\ r.site = "search"
    /\ inflight' = inflight \ {r}
    /\ lastOp' = "searchSettle"
    /\ dispatched' = Null
    /\ lastIssued' = <<>>
    /\ lastSettled' = Settled(r)
    /\ IF status = 200
       THEN LET data == SearchResponse(r.q, r.kind, LIMIT, r.offset)
            IN  /\ results' = data.results
                /\ total' = data.total
                /\ entityTotal' = data.entityTotal
                /\ categoryTotal' = data.categoryTotal
                /\ UNCHANGED spErr
       ELSE /\ spErr' = StringOfError("Search failed", status)
            /\ results' = NoResults
            /\ UNCHANGED <<total, entityTotal, categoryTotal>>
    /\ spLoading' = FALSE
    /\ UNCHANGED <<libVars, registryVars, envVars, qInput, submittedQ, kind, page,
                   categoryTree, entityTree>>
    /\ JsonLdEffects

\* the .then / .catch / .finally continuations of search(...) in the fetch effect
SearchSettle(r, status) ==
    /\ r \in inflight
    /\ r.site = "search"
    /\ inflight' = inflight \ {r}
    /\ lastOp' = "searchSettle"
    /\ dispatched' = Null
    /\ lastIssued' = <<>>
    /\ lastSettled' = Settled(r)
    /\ IF r.cancelled
       THEN UNCHANGED <<spLoading, spErr, results, total, entityTotal, categoryTotal>>
       ELSE /\ IF status = 200
               THEN LET data == SearchResponse(r.q, r.kind, LIMIT, r.offset)
                    IN  /\ results' = data.results
                        /\ total' = data.total
                        /\ entityTotal' = data.entityTotal
                        /\ categoryTotal' = data.categoryTotal
                        /\ UNCHANGED spErr
               ELSE /\ spErr' = StringOfError("Search failed", status)
                    /\ results' = NoResults
                    /\ UNCHANGED <<total, entityTotal, categoryTotal>>
            /\ spLoading' = FALSE
    /\ UNCHANGED <<libVars, registryVars, envVars, qInput, submittedQ, kind, page,
                   categoryTree, entityTree>>
    /\ JsonLdEffects

----------------------------------------------------------------------------
(* pages/CategoryPage.tsx with extensions/typeFacets.tsx and CategoryMap.tsx *)

\* the route ids a user visits
RouteIds == {"A", "B"}

\* Array.prototype.join
RECURSIVE Join(_, _)
Join(seq, sep) ==
    IF seq = <<>> THEN <<>>
    ELSE IF Len(seq) = 1 THEN <<seq[1]>>
    ELSE <<Head(seq), sep>> \o Join(Tail(seq), sep)

\* String(e) of the TypeError that new URL(relative) throws without a base
InvalidUrl == Some(<<"TypeError", "Invalid URL", 0>>)

\* the backend's answers
CategoryDetails(id) == [id |-> id, uri |-> <<"category", id>>, label |-> <<"label", id>>]
NoEntities == [id |-> "", types |-> <<>>]
\* (no entity carries both types: the list filtered by both is empty)
EntityList(r) ==
    IF "," \in { r.types[i] : i \in DOMAIN r.types } THEN NoEntities
    ELSE [id |-> r.id, types |-> r.types]
\* (category "B" has no typed entities: its facet list is empty)
FacetsOf(id) == IF id = "B" THEN <<>> ELSE <<"t1", "t2">>

\* getCategory(id) as called by the page and by the category map
CategoryReq(id) == Req("category", "/api/category/{id}", id, <<>>, "", 0, <<>>)
MapReq(id) == Req("map", "/api/category/{id}", id, <<>>, "", 0, <<>>)
\* getCategoryEntities(id, 25, 0)
EntitiesReq(id) == Req("entities", "/api/category/{id}/entities", id, <<>>, "", 0, <<>>)
\* the entitiesByType fetch with types = selectedTypes.join(",")
EntitiesByTypeReq(id, types) ==
    Req("entities", "/api/category/{id}/entitiesByType", id, <<>>, "", 0, Join(types, ","))
\* the facets fetch of the type-facets widget (a route id has no trailing "?")
FacetsReq(id) == Req("facets", "/api/category/{id}/facets/types", id, <<>>, "", 0, <<>>)

\* the entities effect, always asking the unfiltered endpoint
EntitiesFetch_unfiltered(id, types) ==
    IF apiBase = "" THEN <<>> ELSE <<EntitiesReq(id)>>

\* the request the entities effect starts: none when getCategoryEntities throws
\* in new URL(`${API_BASE}/api/...`) because API_BASE is empty
EntitiesFetch(id, types) ==
    IF types # <<>> THEN <<EntitiesByTypeReq(id, types)>>
    ELSE IF apiBase = "" THEN <<>>
    ELSE <<EntitiesReq(id)>>

Range(seq) == { seq[i] : i \in DOMAIN seq }

\* the page renders its sections and its sidebar (lines 114-116 all pass)
CategoryShown(c, e) == c # Null /\ e = Null

\* a widget of the registry is rendered in the slot
InSlot(slot, extId) ==
    \E i \in DOMAIN getExtensions(slot) : getExtensions(slot)[i].id = extId

FacetsMounted ==
    route.page = "category" /\ CategoryShown(cat, cpErr)
        /\ InSlot("category.sidebar", TypeFacetsExt.id)
MapMounted ==
    route.page = "category" /\ CategoryShown(cat, cpErr)
        /\ InSlot("category.sidebar", CategoryMapExt.id)

\* useState initial values; a widget is in this state when it is not mounted
\* and right after its mount effect ran
FacetsInitial ==
    /\ facets' = <<>>
    /\ tfErr' = Null
    /\ tfLoading' = TRUE
    /\ selected' = <<>>
MapInitial ==
    /\ cmCat' = Null
    /\ cmErr' = Null
CategoryInitial ==
    /\ cat' = Null
    /\ entities' = NoEntities
    /\ cpLoading' = TRUE
    /\ entitiesLoading' = FALSE
    /\ cpErr' = Null
    /\ selectedTypes' = <<>>

\* the requests the sidebar widgets issue when they mount or get a new categoryId
SidebarReqs(id) ==
    (IF InSlot("category.sidebar", TypeFacetsExt.id) THEN <<FacetsReq(id)>> ELSE <<>>)
    \o (IF InSlot("category.sidebar", CategoryMapExt.id) THEN <<MapReq(id)>> ELSE <<>>)

\* the category effect and the entities effect for route id `id`
\* (lines 30-53 and 56-93), with the immediate rejection of the entities
\* promise when no request could be built
CategoryEffects(id, reqs, before) ==
    LET ef == EntitiesFetch(id, selectedTypes)
    IN  /\ cat' = Null
        /\ cpLoading' = TRUE
        /\ cpErr' = IF ef = <<>> THEN InvalidUrl ELSE Null
        /\ entitiesLoading' = (ef # <<>>)
        /\ inflight' = reqs \cup {CategoryReq(id)} \cup Range(ef)
        /\ lastIssued' = before \o <<CategoryReq(id)>> \o ef

\* the route id changes while the category page stays mounted
ChangeCategory(id) ==
    /\ route.page = "category"
    /\ id # route.id
    /\ route' = [route EXCEPT !.id = id]
    /\ LET shown == CategoryShown(cat, cpErr)
           \* the mounted widgets re-run their effects for the new id, and are
           \* unmounted by the render that follows setCat(null)
           side == IF shown THEN SidebarReqs(id) ELSE <<>>
           old == SupersedeAll(CleanupAll(inflight, SitesOf("category")), SitesOf("category"))
       IN  CategoryEffects(id, old \cup { Dropped(r) : r \in Range(side) }, side)
    /\ FacetsInitial
    /\ MapInitial
    /\ WithinBound(inflight', MaxStaleCategory)
    /\ lastOp' = "changeCategory"
    /\ dispatched' = Null
    /\ lastSettled' = "none"
    /\ UNCHANGED <<libVars, registryVars, apiBase, entities, selectedTypes, searchVars, entityTree>>
    /\ JsonLdEffects

\* the sidebar after a continuation of the page changed cat or err:
\* the widgets mount when the page starts to show, unmount when it stops
SidebarAfter(reqs, wasShown, isShown) ==
    IF isShown /\ ~wasShown
    THEN /\ inflight' = reqs \cup Range(SidebarReqs(route.id))
         /\ lastIssued' = SidebarReqs(route.id)
         /\ FacetsInitial
         /\ MapInitial
    ELSE IF wasShown /\ ~isShown
    THEN /\ inflight' = SupersedeAll(CleanupAll(reqs, {"facets", "map"}), {"facets", "map"})
         /\ lastIssued' = <<>>
         /\ FacetsInitial
         /\ MapInitial
    ELSE /\ inflight' = reqs
         /\ lastIssued' = <<>>
         /\ UNCHANGED <<facetsVars, mapVars>>

\* the continuations of getCategory(id) in the category effect
CategorySettle(r, status) ==
    /\ r \in inflight
    /\ r.site = "category"
    /\ lastOp' = "categorySettle"
    /\ dispatched' = Null
    /\ lastSettled' = Settled(r)
    /\ IF r.cancelled
       THEN /\ inflight' = inflight \ {r}
            /\ lastIssued' = <<>>
            /\ UNCHANGED <<cat, cpErr, cpLoading, facetsVars, mapVars>>
       ELSE /\ cat' = IF status = 200 THEN Some(CategoryDetails(r.id)) ELSE cat
            /\ cpErr' = IF status = 200 THEN cpErr
                        ELSE StringOfError("Category failed", status)
            /\ cpLoading' = FALSE
            /\ SidebarAfter(inflight \ {r}, CategoryShown(cat, cpErr),
                            CategoryShown(cat', cpErr'))
    /\ UNCHANGED <<libVars, registryVars, envVars, entities, entitiesLoading, selectedTypes,
                   searchVars, entityTree>>
    /\ JsonLdEffects

\* the continuations of the entity-list promise in the entities effect
EntitiesSettle(r, status) ==
    /\ r \in inflight
    /\ r.site = "entities"
    /\ lastOp' = "entitiesSettle"
    /\ dispatched' = Null
    /\ lastSettled' = Settled(r)
    /\ IF r.cancelled
       THEN /\ inflight' = inflight \ {r}
            /\ lastIssued' = <<>>
            /\ UNCHANGED <<entities, cpErr, entitiesLoading, facetsVars, mapVars>>
       ELSE /\ entities' = IF status = 200 THEN EntityList(r) ELSE entities
            /\ cpErr' = IF status = 200 THEN cpErr
                        ELSE StringOfError(
                               IF r.path = "/api/category/{id}/entities"
                               THEN "Category entities failed"
                               ELSE "entitiesByType HTTP", status)
            /\ entitiesLoading' = FALSE
            /\ SidebarAfter(inflight \ {r}, CategoryShown(cat, cpErr),
                            CategoryShown(cat, cpErr'))
    /\ UNCHANGED <<libVars, registryVars, envVars, cat, cpLoading, selectedTypes,
                   searchVars, entityTree>>
    /\ JsonLdEffects

\* the facets fetch, reporting its failure to the host page as well
FacetsSettle_hostError(r, status) ==
    /\ r \in inflight
    /\ r.site = "facets"
    /\ inflight' = inflight \ {r}
    /\ lastOp' = "facetsSettle"
    /\ dispatched' = Null
    /\ lastIssued' = <<>>
    /\ lastSettled' = Settled(r)
    /\ IF r.cancelled
       THEN UNCHANGED <<facets, tfErr, tfLoading, cpErr>>
       ELSE /\ facets' = IF status = 200 THEN FacetsOf(r.id) ELSE facets
            /\ tfErr' = IF status = 200 THEN tfErr ELSE StringOfError("HTTP", status)
            /\ cpErr' = IF status = 200 THEN cpErr ELSE StringOfError("HTTP", status)
            /\ tfLoading' = FALSE
    /\ UNCHANGED <<libVars, registryVars, envVars, selected, cat, entities, cpLoading,
                   entitiesLoading, selectedTypes, mapVars, searchVars, entityTree>>
    /\ JsonLdEffects

\* the continuations of the facets fetch of the type-facets widget
FacetsSettle(r, status) ==
    /\ r \in inflight
    /\ r.site = "facets"
    /\ inflight' = inflight \ {r}
    /\ lastOp' = "facetsSettle"
    /\ dispatched' = Null
    /\ lastIssued' = <<>>
    /\ lastSettled' = Settled(r)
    /\ IF r.cancelled
       THEN UNCHANGED <<facets, tfErr, tfLoading>>
       ELSE /\ facets' = IF status = 200 THEN FacetsOf(r.id) ELSE facets
            /\ tfErr' = IF status = 200 THEN tfErr ELSE StringOfError("HTTP", status)
            /\ tfLoading' = FALSE
    /\ UNCHANGED <<libVars, registryVars, envVars, selected, categoryVars, mapVars,
                   searchVars, entityTree>>
    /\ JsonLdEffects

\* the continuations of getCategory(categoryId) in the category-map widget
MapSettle(r, status) ==
    /\ r \in inflight
    /\ r.site = "map"
    /\ inflight' = inflight \ {r}
    /\ lastOp' = "mapSettle"
    /\ dispatched' = Null
    /\ lastIssued' = <<>>
    /\ lastSettled' = Settled(r)
    /\ IF r.cancelled
       THEN UNCHANGED <<cmCat, cmErr>>
       ELSE /\ cmCat' = IF status = 200 THEN Some(CategoryDetails(r.id)) ELSE cmCat
            /\ cmErr' = IF status = 200 THEN cmErr
                        ELSE StringOfError("Category failed", status)
    /\ UNCHANGED <<libVars, registryVars, envVars, categoryVars, facetsVars,
                   searchVars, entityTree>>
    /\ JsonLdEffects

\* selected: Record<string, boolean>, kept as its entries in insertion order
IsChecked(sel, t) == \E i \in DOMAIN sel : sel[i].type = t /\ sel[i].on

\* { ...s, [t]: v }
WithEntry(sel, t, v) ==
    IF \E i \in DOMAIN sel : sel[i].type = t
    THEN [i \in DOMAIN sel |-> IF sel[i].type = t THEN [type |-> t, on |-> v] ELSE sel[i]]
    ELSE Append(sel, [type |-> t, on |-> v])

\* Object.entries(selected).filter(([, v]) => v).map(([k]) => k)
RECURSIVE CheckedTypes(_)
CheckedTypes(sel) ==
    IF sel = <<>> THEN <<>>
    ELSE IF Head(sel).on THEN <<Head(sel).type>> \o CheckedTypes(Tail(sel))
    ELSE CheckedTypes(Tail(sel))

\* the checkboxes and the two buttons are rendered
FacetsControlsShown == FacetsMounted /\ ~tfLoading /\ tfErr = Null

\* a checkbox's onChange: setSelected((s) => ({ ...s, [f.type]: e.target.checked }))
ToggleFacet(t) ==
    /\ FacetsControlsShown
    /\ t \in Range(facets)
    /\ selected' = WithEntry(selected, t, ~IsChecked(selected, t))
    /\ lastOp' = "toggleFacet"
    /\ dispatched' = Null
    /\ lastIssued' = <<>>
    /\ lastSettled' = "none"
    /\ UNCHANGED <<libVars, registryVars, envVars, inflight, facets, tfErr, tfLoading,
                   categoryVars, mapVars, searchVars, entityTree>>
    /\ JsonLdEffects

\* the listener comparing the broadcast types with the active filter by value:
\* an equal list changes no state and re-runs no effect
TypeFilterChanged_sameSkips(types) ==
    LET same == types = selectedTypes
        ef == IF same THEN <<>> ELSE EntitiesFetch(route.id, types)
        old == Supersede(Cleanup(inflight, "entities"), "entities")
        err == IF ef = <<>> THEN InvalidUrl ELSE Null
        reqs == old \cup Range(ef)
    IN  IF same
        THEN /\ UNCHANGED <<inflight, categoryVars, facets, tfErr, tfLoading, mapVars>>
             /\ lastIssued' = <<>>
        ELSE /\ selectedTypes' = types
             /\ cpErr' = err
             /\ entitiesLoading' = (ef # <<>>)
             /\ UNCHANGED <<cat, cpLoading, entities>>
             /\ IF CategoryShown(cat, err)
                THEN /\ inflight' = reqs
                     /\ UNCHANGED <<facets, tfErr, tfLoading, mapVars>>
                ELSE /\ inflight' = SupersedeAll(CleanupAll(reqs, {"facets", "map"}),
                                                 {"facets", "map"})
                     /\ facets' = <<>> /\ tfErr' = Null /\ tfLoading' = TRUE
                     /\ MapInitial
             /\ lastIssued' = ef

\* the page's "wadev:typeFilterChanged" listener (lines 20-23): setSelectedTypes
\* with a new array, and the entities effect that re-runs for it (lines 56-93)
TypeFilterChanged(types) ==
    LET ef == EntitiesFetch(route.id, types)
        old == Supersede(Cleanup(inflight, "entities"), "entities")
        err == IF ef = <<>> THEN InvalidUrl ELSE Null
        reqs == old \cup Range(ef)
    IN  /\ selectedTypes' = types
        /\ cpErr' = err
        /\ entitiesLoading' = (ef # <<>>)
        /\ UNCHANGED <<cat, cpLoading, entities>>
        /\ IF CategoryShown(cat, err)
           THEN /\ inflight' = reqs
                /\ UNCHANGED <<facets, tfErr, tfLoading, mapVars>>
           ELSE /\ inflight' = SupersedeAll(CleanupAll(reqs, {"facets", "map"}),
                                            {"facets", "map"})
                /\ facets' = <<>> /\ tfErr' = Null /\ tfLoading' = TRUE
                /\ MapInitial
        /\ lastIssued' = ef

\* "Apply filter" dispatching every listed type, checked or not
ApplyFilter_allFacets ==
    /\ FacetsControlsShown
    /\ TypeFilterChanged(facets)
    /\ selected' = IF CategoryShown(cat, cpErr') THEN selected ELSE <<>>
    /\ WithinBound(inflight', MaxStaleCategory)
    /\ lastOp' = "applyFilter"
    /\ dispatched' = Some(facets)
    /\ lastSettled' = "none"
    /\ UNCHANGED <<libVars, registryVars, envVars, searchVars, entityTree>>
    /\ JsonLdEffects

\* "Apply filter": dispatch the checked types
ApplyFilter ==
    /\ FacetsControlsShown
    /\ TypeFilterChanged(CheckedTypes(selected))
    /\ selected' = IF CategoryShown(cat, cpErr') THEN selected ELSE <<>>
    /\ WithinBound(inflight', MaxStaleCategory)
    /\ lastOp' = "applyFilter"
    /\ dispatched' = Some(CheckedTypes(selected))
    /\ lastSettled' = "none"
    /\ UNCHANGED <<libVars, registryVars, envVars, searchVars, entityTree>>
    /\ JsonLdEffects

\* "Clear": setSelected({}) and dispatch the empty list
ClearFilter ==
    /\ FacetsControlsShown
    /\ TypeFilterChanged(<<>>)
    /\ selected' = <<>>
    /\ WithinBound(inflight', MaxStaleCategory)
    /\ lastOp' = "clearFilter"
    /\ dispatched' = Some(<<>>)
    /\ lastSettled' = "none"
    /\ UNCHANGED <<libVars, registryVars, envVars, searchVars, entityTree>>
    /\ JsonLdEffects

\* the listener is registered by the mount effect of CategoryPage and removed
\* by its cleanup (lines 19-27)
ListenerRegistered == route.page = "category"

\* the types lists of events dispatched by code other than the widget's buttons
BroadcastTypes == { <<>>, <<"t1">> }

\* window.dispatchEvent(new CustomEvent("wadev:typeFilterChanged", ...)) by
\* other code while the category page is mounted: its listener handles it
BroadcastHeard(types) ==
    /\ ListenerRegistered
    /\ TypeFilterChanged(types)
    /\ selected' = IF CategoryShown(cat, cpErr') THEN selected ELSE <<>>
    /\ WithinBound(inflight', MaxStaleCategory)
    /\ lastOp' = "broadcast"
    /\ dispatched' = Some(types)
    /\ lastSettled' = "none"
    /\ UNCHANGED <<libVars, registryVars, envVars, searchVars, entityTree>>
    /\ JsonLdEffects

\* the same event while no category page is mounted: nothing listens
BroadcastUnheard(types) ==
    /\ ~ListenerRegistered
    /\ lastOp' = "broadcast"
    /\ dispatched' = Some(types)
    /\ lastIssued' = <<>>
    /\ lastSettled' = "none"
    /\ UNCHANGED <<libVars, registryVars, envVars, inflight, uiVars>>
    /\ JsonLdEffects

----------------------------------------------------------------------------
(* pages/EntityPage.tsx with extensions/RelatedEntities.tsx *)

\* (entity "A" has an abstract, entity "B" has none)
EntityDetails(id) ==
    [id |-> id, uri |-> <<"entity", id>>, label |-> <<"label", id>>,
     abstract |-> IF id = "A" THEN Some(<<"abstract", id>>) ELSE Null]
NoItems == [id |-> ""]
\* (entity "B" shares no category with another entity: its list is empty)
RelatedItems(r) == IF r.id = "B" THEN NoItems ELSE [id |-> r.id]

\* getEntity(id)
EntityReq(id) == Req("entity", "/api/entity/{id}", id, <<>>, "", 0, <<>>)
\* getRelatedEntities(entityId, 10)
RelatedReq(id) == Req("related", "/api/entity/{id}/related", id, <<>>, "", 0, <<>>)

\* the request getRelatedEntities starts: none when new URL throws
RelatedFetch(id) == IF apiBase = "" THEN <<>> ELSE <<RelatedReq(id)>>

\* the page renders its sections and its sidebar (lines 72-74 all pass)
EntityShown(e, l, x) == ~l /\ x = Null /\ e # Null

RelatedMounted ==
    route.page = "entity" /\ EntityShown(ent, epLoading, epErr)
        /\ InSlot("entity.sidebar", RelatedEntitiesExt.id)

RelatedInitial ==
    /\ items' = NoItems
    /\ reLoading' = TRUE
    /\ reErr' = Null
EntityInitial ==
    /\ ent' = Null
    /\ epLoading' = TRUE
    /\ epErr' = Null

\* the requests of the related-entities effect for entityId `id`
RelatedReqs(id) ==
    IF InSlot("entity.sidebar", RelatedEntitiesExt.id) THEN RelatedFetch(id) ELSE <<>>

\* the route id changes while the entity page stays mounted
ChangeEntity(id) ==
    /\ route.page = "entity"
    /\ id # route.id
    /\ route' = [route EXCEPT !.id = id]
    /\ LET shown == EntityShown(ent, epLoading, epErr)
           \* the mounted widget re-runs its effect for the new id, and is
           \* unmounted by the render that follows setLoading(true)
           side == IF shown THEN RelatedReqs(id) ELSE <<>>
           old == SupersedeAll(CleanupAll(inflight, SitesOf("entity")), SitesOf("entity"))
       IN  /\ inflight' = old \cup { Dropped(r) : r \in Range(side) } \cup {EntityReq(id)}
           /\ lastIssued' = side \o <<EntityReq(id)>>
    /\ epLoading' = TRUE
    /\ epErr' = Null
    /\ RelatedInitial
    /\ WithinBound(inflight', MaxStaleEntity)
    /\ lastOp' = "changeEntity"
    /\ dispatched' = Null
    /\ lastSettled' = "none"
    /\ UNCHANGED <<libVars, registryVars, apiBase, ent, searchVars, categoryTree>>
    /\ JsonLdEffects

\* the continuations of getEntity(id) in the fetch effect
EntitySettle(r, status) ==
    /\ r \in inflight
    /\ r.site = "entity"
    /\ lastOp' = "entitySettle"
    /\ dispatched' = Null
    /\ lastSettled' = Settled(r)
    /\ IF r.cancelled
       THEN /\ inflight' = inflight \ {r}
            /\ lastIssued' = <<>>
            /\ UNCHANGED <<ent, epErr, epLoading, relatedVars>>
       ELSE /\ ent' = IF status = 200 THEN Some(EntityDetails(r.id)) ELSE ent
            /\ epErr' = IF status = 200 THEN epErr
                        ELSE StringOfError("Entity failed", status)
            /\ epLoading' = FALSE
            /\ IF EntityShown(ent', FALSE, epErr')
               THEN \* the related-entities widget mounts; its promise is
                    \* rejected at once when no request could be built
                    LET rf == RelatedReqs(route.id)
                        rejected == rf = <<>>
                                      /\ InSlot("entity.sidebar", RelatedEntitiesExt.id)
                    IN  /\ inflight' = (inflight \ {r}) \cup Range(rf)
                        /\ lastIssued' = rf
                        /\ items' = NoItems
                        /\ reLoading' = ~rejected
                        /\ reErr' = IF rejected THEN InvalidUrl ELSE Null
               ELSE /\ inflight' = inflight \ {r}
                    /\ lastIssued' = <<>>
                    /\ UNCHANGED relatedVars
    /\ UNCHANGED <<libVars, registryVars, envVars, searchVars, categoryTree>>
    /\ JsonLdEffects

\* what the related-entities widget renders below its heading
RelatedView ==
    [ loading  |-> reLoading,
      error    |-> reErr # Null,
      fallback |-> ~reLoading /\ ~(reErr # Null) /\ items = NoItems,
      list     |-> ~reLoading /\ ~(reErr # Null) /\ ~(items = NoItems) ]

\* the continuations of getRelatedEntities, reporting an empty list as a failure
RelatedSettle_emptyIsError(r, status) ==
    /\ r \in inflight
    /\ r.site = "related"
    /\ inflight' = inflight \ {r}
    /\ lastOp' = "relatedSettle"
    /\ dispatched' = Null
    /\ lastIssued' = <<>>
    /\ lastSettled' = Settled(r)
    /\ IF r.cancelled
       THEN UNCHANGED relatedVars
       ELSE /\ items' = IF status = 200 THEN RelatedItems(r) ELSE items
            /\ reErr' = IF status = 200 /\ RelatedItems(r) # NoItems THEN reErr
                        ELSE StringOfError("Related entities failed", status)
            /\ reLoading' = FALSE
    /\ UNCHANGED <<libVars, registryVars, envVars, searchVars, categoryTree, entityVars>>
    /\ JsonLdEffects

\* the continuations of getRelatedEntities(entityId, 10)
RelatedSettle(r, status) ==
    /\ r \in inflight
    /\ r.site = "related"
    /\ inflight' = inflight \ {r}
    /\ lastOp' = "relatedSettle"
    /\ dispatched' = Null
    /\ lastIssued' = <<>>
    /\ lastSettled' = Settled(r)
    /\ IF r.cancelled
       THEN UNCHANGED relatedVars
       ELSE /\ items' = IF status = 200 THEN RelatedItems(r) ELSE items
            /\ reErr' = IF status = 200 THEN reErr
                        ELSE StringOfError("Related entities failed", status)
            /\ reLoading' = FALSE
    /\ UNCHANGED <<libVars, registryVars, envVars, searchVars, categoryTree, entityVars>>
    /\ JsonLdEffects

----------------------------------------------------------------------------
(* Navigation between the routes of main.tsx *)

\* useState initial values of the search page
SearchInitial ==
    /\ qInput' = <<>>
    /\ submittedQ' = <<>>
    /\ kind' = "all"
    /\ spLoading' = FALSE
    /\ spErr' = Null
    /\ results' = NoResults
    /\ page' = 1
    /\ total' = 0
    /\ entityTotal' = 0
    /\ categoryTotal' = 0

\* the page that is left unmounts: the cleanups of its effects and of its widgets'
LeavePage(reqs) ==
    SupersedeAll(CleanupAll(reqs, SitesOf(route.page)), SitesOf(route.page))

\* "/" is opened from another page; SearchPage mounts and its effects find
\* the empty submitted query
OpenSearch ==
    /\ route.page # "search"
    /\ route' = [page |-> "search", id |-> ""]
    /\ inflight' = LeavePage(inflight)
    /\ lastIssued' = <<>>
    /\ SearchInitial
    /\ CategoryInitial /\ FacetsInitial /\ MapInitial
    /\ EntityInitial /\ RelatedInitial
    /\ WithinBound(inflight', MaxStaleNav)
    /\ lastOp' = "openSearch"
    /\ dispatched' = Null
    /\ lastSettled' = "none"
    /\ UNCHANGED <<libVars, registryVars, apiBase>>
    /\ JsonLdEffects

\* "/category/:id" is opened from another page; CategoryPage mounts
OpenCategory(id) ==
    /\ route.page # "category"
    /\ route' = [page |-> "category", id |-> id]
    /\ CategoryEffects(id, LeavePage(inflight), <<>>)
    /\ entities' = NoEntities
    /\ selectedTypes' = <<>>
    /\ FacetsInitial /\ MapInitial
    /\ SearchInitial
    /\ EntityInitial /\ RelatedInitial
    /\ WithinBound(inflight', MaxStaleNav)
    /\ lastOp' = "openCategory"
    /\ dispatched' = Null
    /\ lastSettled' = "none"
    /\ UNCHANGED <<libVars, registryVars, apiBase>>
    /\ JsonLdEffects

\* "/entity/:id" is opened from another page; EntityPage mounts
OpenEntity(id) ==
    /\ route.page # "entity"
    /\ route' = [page |-> "entity", id |-> id]
    /\ inflight' = LeavePage(inflight) \cup {EntityReq(id)}
    /\ lastIssued' = <<EntityReq(id)>>
    /\ EntityInitial /\ RelatedInitial
    /\ SearchInitial
    /\ CategoryInitial /\ FacetsInitial /\ MapInitial
    /\ WithinBound(inflight', MaxStaleNav)
    /\ lastOp' = "openEntity"
    /\ dispatched' = Null
    /\ lastSettled' = "none"
    /\ UNCHANGED <<libVars, registryVars, apiBase>>
    /\ JsonLdEffects

----------------------------------------------------------------------------
(* lib/codec.ts: identifiers are the base64url form of the UTF-8 bytes of   *)
(* a URI.  A JavaScript string is held as the sequence of its UTF-16 code   *)
(* units; a call that throws returns Thrown.                                *)

Thrown == <<-1>>

\* a ++ rest, unless the rest of the computation threw
AndThen(a, rest) == IF rest = Thrown THEN Thrown ELSE a \o rest

IsHex(c) == c \in (48..57) \cup (65..70) \cup (97..102)
HexVal(c) == IF c \in 48..57 THEN c - 48 ELSE IF c \in 65..70 THEN c - 55 ELSE c - 87
HexDigit(v) == IF v < 10 THEN 48 + v ELSE 55 + v

\* "%XX" for one byte
PercentByte(b) == <<37, HexDigit(b \div 16), HexDigit(b % 16)>>

RECURSIVE PercentBytes(_)
PercentBytes(bs) ==
    IF bs = <<>> THEN <<>> ELSE PercentByte(Head(bs)) \o PercentBytes(Tail(bs))

\* the UTF-8 bytes of one code point
Utf8Bytes(cp) ==
    IF cp < 128 THEN <<cp>>
    ELSE IF cp < 2048 THEN <<192 + (cp \div 64), 128 + (cp % 64)>>
    ELSE IF cp < 65536
         THEN <<224 + (cp \div 4096), 128 + ((cp \div 64) % 64), 128 + (cp % 64)>>
    ELSE <<240 + (cp \div 262144), 128 + ((cp \div 4096) % 64),
           128 + ((cp \div 64) % 64), 128 + (cp % 64)>>

\* the UTF-16 code units of one code point
Utf16Units(cp) ==
    IF cp < 65536 THEN <<cp>>
    ELSE <<55296 + ((cp - 65536) \div 1024), 56320 + ((cp - 65536) % 1024)>>

\* A-Z a-z 0-9 - _ . ! ~ * ' ( )
UriUnreserved ==
    (65..90) \cup (97..122) \cup (48..57) \cup {45, 95, 46, 33, 126, 42, 39, 40, 41}

HighSurrogates == 55296..56319
LowSurrogates == 56320..57343

RECURSIVE encodeURIComponent(_)
encodeURIComponent(s) ==
    IF s = <<>> THEN <<>>
    ELSE LET c == Head(s) IN
         IF c \in UriUnreserved
         THEN AndThen(<<c>>, encodeURIComponent(Tail(s)))
         ELSE IF c \in LowSurrogates THEN Thrown
         ELSE IF c \in HighSurrogates
              THEN IF Len(s) >= 2 /\ s[2] \in LowSurrogates
                   THEN AndThen(PercentBytes(Utf8Bytes(
                                    65536 + (c - 55296) * 1024 + (s[2] - 56320))),
                                encodeURIComponent(Tail(Tail(s))))
                   ELSE Thrown
         ELSE AndThen(PercentBytes(Utf8Bytes(c)), encodeURIComponent(Tail(s)))

RECURSIVE unescape(_)
unescape(s) ==
    IF s = <<>> THEN <<>>
    ELSE IF /\ s[1] = 37 /\ Len(s) >= 6 /\ s[2] = 117
            /\ \A i \in 3..6 : IsHex(s[i])
         THEN <<4096 * HexVal(s[3]) + 256 * HexVal(s[4])
                  + 16 * HexVal(s[5]) + HexVal(s[6])>>
              \o unescape(SubSeq(s, 7, Len(s)))
    ELSE IF s[1] = 37 /\ Len(s) >= 3 /\ IsHex(s[2]) /\ IsHex(s[3])
         THEN <<16 * HexVal(s[2]) + HexVal(s[3])>> \o unescape(SubSeq(s, 4, Len(s)))
    ELSE <<s[1]>> \o unescape(Tail(s))

\* the base64 alphabet: A-Z a-z 0-9 + /
B64Char(i) ==
    IF i < 26 THEN 65 + i
    ELSE IF i < 52 THEN 97 + (i - 26)
    ELSE IF i < 62 THEN 48 + (i - 52)
    ELSE IF i = 62 THEN 43 ELSE 47

B64Index(c) ==
    IF c \in 65..90 THEN c - 65
    ELSE IF c \in 97..122 THEN c - 97 + 26
    ELSE IF c \in 48..57 THEN c - 48 + 52
    ELSE IF c = 43 THEN 62
    ELSE IF c = 47 THEN 63 ELSE -1

RECURSIVE Base64(_)
Base64(bs) ==
    IF bs = <<>> THEN <<>>
    ELSE IF Len(bs) = 1
         THEN <<B64Char(bs[1] \div 4), B64Char((bs[1] % 4) * 16), 61, 61>>
    ELSE IF Len(bs) = 2
         THEN <<B64Char(bs[1] \div 4),
                B64Char((bs[1] % 4) * 16 + (bs[2] \div 16)),
                B64Char((bs[2] % 16) * 4), 61>>
    ELSE <<B64Char(bs[1] \div 4),
           B64Char((bs[1] % 4) * 16 + (bs[2] \div 16)),
           B64Char((bs[2] % 16) * 4 + (bs[3] \div 64)),
           B64Char(bs[3] % 64)>>
         \o Base64(SubSeq(bs, 4, Len(bs)))

\* btoa throws on a character outside Latin-1
btoa(s) == IF \E i \in 1..Len(s) : s[i] > 255 THEN Thrown ELSE Base64(s)

RECURSIVE Base64Bytes(_)
Base64Bytes(ix) ==
    IF Len(ix) < 2 THEN <<>>
    ELSE IF Len(ix) = 2 THEN <<ix[1] * 4 + (ix[2] \div 16)>>
    ELSE IF Len(ix) = 3
         THEN <<ix[1] * 4 + (ix[2] \div 16), (ix[2] % 16) * 16 + (ix[3] \div 4)>>
    ELSE <<ix[1] * 4 + (ix[2] \div 16), (ix[2] % 16) * 16 + (ix[3] \div 4),
           (ix[3] % 4) * 64 + ix[4]>>
         \o Base64Bytes(SubSeq(ix, 5, Len(ix)))

IsAsciiWhitespace(c) == c \in {9, 10, 12, 13, 32}
NotAsciiWhitespace(c) == ~IsAsciiWhitespace(c)

\* atob: the forgiving base64 decoding of the HTML standard
atob(s) ==
    LET w == SelectSeq(s, NotAsciiWhitespace)
        d == IF Len(w) % 4 = 0 /\ Len(w) > 0 /\ w[Len(w)] = 61
             THEN IF w[Len(w) - 1] = 61 THEN SubSeq(w, 1, Len(w) - 2)
                  ELSE SubSeq(w, 1, Len(w) - 1)
             ELSE w
    IN  IF Len(d) % 4 = 1 \/ \E i \in 1..Len(d) : B64Index(d[i]) = -1
        THEN Thrown
        ELSE Base64Bytes([i \in 1..Len(d) |-> B64Index(d[i])])

\* String.prototype.replace with a one-character global pattern
Replace(s, from, to) == [i \in 1..Len(s) |-> IF s[i] = from THEN to ELSE s[i]]

\* .replace(/=+$/g, "")
RECURSIVE StripPadding(_)
StripPadding(s) ==
    IF s # <<>> /\ s[Len(s)] = 61 THEN StripPadding(SubSeq(s, 1, Len(s) - 1)) ELSE s

uriToId_notUrlSafe(uri) ==
    LET e == encodeURIComponent(uri) IN
    IF e = Thrown THEN Thrown ELSE btoa(unescape(e))

uriToId(uri) ==
    LET e == encodeURIComponent(uri) IN
    IF e = Thrown THEN Thrown
    ELSE LET b64 == btoa(unescape(e)) IN
         IF b64 = Thrown THEN Thrown
         ELSE StripPadding(Replace(Replace(b64, 43, 45), 47, 95))

\* A-Z a-z 0-9 @ * _ + - . /
EscapeLiterals == (65..90) \cup (97..122) \cup (48..57) \cup {64, 42, 95, 43, 45, 46, 47}

RECURSIVE escape(_)
escape(s) ==
    IF s = <<>> THEN <<>>
    ELSE (IF s[1] \in EscapeLiterals THEN <<s[1]>>
          ELSE IF s[1] < 256 THEN PercentByte(s[1])
          ELSE <<37, 117, HexDigit(s[1] \div 4096), HexDigit((s[1] \div 256) % 16),
                 HexDigit((s[1] \div 16) % 16), HexDigit(s[1] % 16)>>)
         \o escape(Tail(s))

\* "%XX" at position i of s
PctAt(s, i) == Len(s) >= i + 2 /\ s[i] = 37 /\ IsHex(s[i + 1]) /\ IsHex(s[i + 2])
ByteAt(s, i) == 16 * HexVal(s[i + 1]) + HexVal(s[i + 2])

\* the number of bytes of the UTF-8 sequence a lead byte opens, 0 if none
Utf8Length(b) ==
    IF b < 128 THEN 1
    ELSE IF b \in 192..223 THEN 2
    ELSE IF b \in 224..239 THEN 3
    ELSE IF b \in 240..247 THEN 4 ELSE 0

\* the code point of the n-byte sequence at the head of s, -1 if ill-formed
Utf8CodePoint(s, n) ==
    LET b == ByteAt(s, 1)
        c(k) == ByteAt(s, 3 * k + 1) - 128
        cp == IF n = 2 THEN (b - 192) * 64 + c(1)
              ELSE IF n = 3 THEN (b - 224) * 4096 + c(1) * 64 + c(2)
              ELSE (b - 240) * 262144 + c(1) * 4096 + c(2) * 64 + c(3)
        least == IF n = 2 THEN 128 ELSE IF n = 3 THEN 2048 ELSE 65536
    IN  IF ~(\A k \in 1..(n - 1) : PctAt(s, 3 * k + 1) /\ ByteAt(s, 3 * k + 1) \in 128..191)
        THEN -1
        ELSE IF cp < least \/ cp > 1114111 \/ cp \in 55296..57343 THEN -1
        ELSE cp

RECURSIVE decodeURIComponent(_)
decodeURIComponent(s) ==
    IF s = <<>> THEN <<>>
    ELSE IF s[1] # 37 THEN AndThen(<<s[1]>>, decodeURIComponent(Tail(s)))
    ELSE IF ~PctAt(s, 1) THEN Thrown
    ELSE LET n == Utf8Length(ByteAt(s, 1)) IN
         IF n = 0 THEN Thrown
         ELSE IF n = 1
              THEN AndThen(<<ByteAt(s, 1)>>, decodeURIComponent(SubSeq(s, 4, Len(s))))
         ELSE LET cp == Utf8CodePoint(s, n) IN
              IF cp = -1 THEN Thrown
              ELSE AndThen(Utf16Units(cp),
                           decodeURIComponent(SubSeq(s, 3 * n + 1, Len(s))))

\* while (b64.length % 4 !== 0) b64 += "="
RECURSIVE PadToFour(_)
PadToFour(s) == IF Len(s) % 4 # 0 THEN PadToFour(Append(s, 61)) ELSE s

idToUri_noReplace(id) ==
    LET bytes == atob(PadToFour(id)) IN
    IF bytes = Thrown THEN Thrown ELSE decodeURIComponent(escape(bytes))

idToUri(id) ==
    LET b64 == PadToFour(Replace(Replace(id, 45, 43), 95, 47))
        bytes == atob(b64)
    IN  IF bytes = Thrown THEN Thrown ELSE decodeURIComponent(escape(bytes))

\* URIs the codec is applied to: / > ? % a, and characters of 2, 3 and 4
\* UTF-8 bytes
MaxUriLen == 3
TestCodePoints == {47, 62, 63, 37, 97, 233, 8364, 128512}

RECURSIVE Utf16String(_)
Utf16String(cps) ==
    IF cps = <<>> THEN <<>> ELSE Utf16Units(Head(cps)) \o Utf16String(Tail(cps))

TestUris ==
    { Utf16String(cps) : cps \in UNION { [1..n -> TestCodePoints] : n \in 0..MaxUriLen } }

\* a caller computes the identifier of a URI
EncodeUri ==
    /\ codecId = Null
    /\ codecId' = Some(uriToId(codecUri))
    /\ UNCHANGED <<codecUri, codecOut>>
    /\ UNCHANGED <<apiVars, layoutVars, shareVars, appVars>>

\* a caller computes the URI of that identifier
DecodeId ==
    /\ codecId # Null
    /\ codecId[1] # Thrown
    /\ codecOut = Null
    /\ codecOut' = Some(idToUri(codecId[1]))
    /\ UNCHANGED <<codecUri, codecId>>
    /\ UNCHANGED <<apiVars, layoutVars, shareVars, appVars>>

----------------------------------------------------------------------------
(* lib/api.ts: the five client functions.  A call builds a URL, sends one   *)
(* request with fetch and settles when the response arrives.                *)

ApiFunctions == {"search", "getCategory", "getCategoryEntities", "getEntity",
                 "getRelatedEntities"}

\* window.location.origin
PageOrigin == "http://spa"

\* the calls the pages and the widgets make, with the defaults of the
\* signatures filled in
SearchCall(q, k, limit, offset) ==
    [fn |-> "search", id |-> "", q |-> q, kind |-> k, limit |-> limit, offset |-> offset]
IdCall(fn, id, limit) ==
    [fn |-> fn, id |-> id, q |-> <<>>, kind |-> "", limit |-> limit, offset |-> 0]
ApiCalls ==
    { SearchCall(q, k, LIMIT, o) : q \in {<<"a", "b">>, <<"c", "d">>},
                                   k \in SearchKinds, o \in {0, LIMIT} }
    \cup { IdCall("getCategory", id, 0) : id \in RouteIds }
    \cup { IdCall("getCategoryEntities", id, 25) : id \in RouteIds }
    \cup { IdCall("getEntity", id, 0) : id \in RouteIds }
    \cup { IdCall("getRelatedEntities", id, 10) : id \in RouteIds }

\* the path of the endpoint a function asks
ApiPath(fn) ==
    CASE fn = "search" -> "/api/search"
      [] fn = "getCategory" -> "/api/category/{id}"
      [] fn = "getCategoryEntities" -> "/api/category/{id}/entities"
      [] fn = "getEntity" -> "/api/entity/{id}"
      [] fn = "getRelatedEntities" -> "/api/entity/{id}/related"

\* url.searchParams.set(...)
ApiQuery(c) ==
    CASE c.fn = "search" ->
            <<<<"q", c.q>>, <<"kind", c.kind>>, <<"limit", c.limit>>, <<"offset", c.offset>>>>
      [] c.fn = "getCategoryEntities" -> <<<<"limit", c.limit>>, <<"offset", c.offset>>>>
      [] c.fn = "getRelatedEntities" -> <<<<"limit", c.limit>>>>
      [] OTHER -> <<>>

\* the functions that build their URL with new URL(string) and no base
UsesUrlConstructor(fn) == fn \in {"getCategoryEntities", "getRelatedEntities"}

\* the origin of the URL a function hands to fetch: search falls back to
\* window.location.origin, a relative URL is resolved by fetch against the
\* page, and new URL(relative) without a base throws (origin "")
ApiOrigin(fn, base) ==
    IF base # "" THEN base
    ELSE IF UsesUrlConstructor(fn) THEN ""
    ELSE PageOrigin

\* the request a call sends
ApiRequest(c, base) ==
    [origin |-> ApiOrigin(c.fn, base), path |-> ApiPath(c.fn), id |-> c.id,
     query |-> ApiQuery(c)]

\* the text of the Error a function throws on a response that is not ok
ApiFailure(fn) ==
    CASE fn = "search" -> "Search failed"
      [] fn = "getCategory" -> "Category failed"
      [] fn = "getCategoryEntities" -> "Category entities failed"
      [] fn = "getEntity" -> "Entity failed"
      [] fn = "getRelatedEntities" -> "Related entities failed"

\* the responses of the backend: a status and the value res.json() gives,
\* NotJson when the body does not parse
NotJson == [syntaxError |-> TRUE]
ApiBodies == {[results |-> <<>>], [results |-> <<"x">>], NotJson}
ApiStatuses == {200, 404, 500}
ResponseOk(status) == status \in 200..299

Fulfilled(value) == [state |-> "fulfilled", value |-> value]
Rejected(name, message, status) ==
    [state |-> "rejected", value |-> <<name, message, status>>]

\* a page calls a client function: the URL is built and fetch is called once,
\* or the promise is rejected at once when the URL cannot be built
ApiCall(c) ==
    /\ apiCall = Null
    /\ apiCall' = Some(c)
    /\ LET req == ApiRequest(c, apiBase) IN
       IF req.origin = ""
       THEN /\ apiSent' = <<>>
            /\ apiResult' = Some(Rejected("TypeError", "Invalid URL", 0))
       ELSE /\ apiSent' = <<req>>
            /\ apiResult' = Null
    /\ UNCHANGED apiResponse
    /\ UNCHANGED <<codecVars, layoutVars, shareVars, appVars>>

\* the response arrives: if (!res.ok) throw new Error(...); return res.json()
ApiRespond(status, body) ==
    /\ apiCall # Null
    /\ apiSent # <<>>
    /\ apiResult = Null
    /\ apiResponse' = Some([status |-> status, json |-> body])
    /\ apiResult' =
         Some(IF ~ResponseOk(status)
              THEN Rejected("Error", ApiFailure(apiCall[1].fn), status)
              ELSE IF body = NotJson THEN Rejected("SyntaxError", "JSON", 0)
              ELSE Fulfilled(body))
    /\ UNCHANGED <<apiCall, apiSent>>
    /\ UNCHANGED <<codecVars, layoutVars, shareVars, appVars>>

----------------------------------------------------------------------------
(* extensions/CategoryMap.tsx: the layout computed by the graph useMemo.    *)
(* A y coordinate is the fraction num / den, as top + i * step is computed  *)
(* from step = (bottom - top) / (n - 1).                                    *)

W == 280
H == 180
leftX == 52
rightX == W - 52
cx == W \div 2
cy == [num |-> H \div 2, den |-> 1]

\* Array.prototype.slice(0, end)
SliceTo(seq, end) == SubSeq(seq, 1, Min(end, Len(seq)))

\* spreadY(n): n values from top = 26 to bottom = H - 26
spreadY(n) ==
    IF n <= 1 THEN <<cy>>
    ELSE [i \in 1..n |-> [num |-> 26 * (n - 1) + (i - 1) * ((H - 26) - 26),
                          den |-> n - 1]]

\* the categories the widget is given: b broader and n narrower references
MaxBroader == 9
MaxNarrower == 11
CategoryRef(k, i) == [uri |-> <<"uri", k, i>>, id |-> <<k, i>>, label |-> <<"label", k, i>>]
LayoutCategory(b, n) ==
    [uri |-> <<"uri", "cat", 0>>, id |-> <<"cat", 0>>, label |-> <<"label", "cat", 0>>,
     broader |-> [i \in 1..b |-> CategoryRef("broader", i)],
     narrower |-> [i \in 1..n |-> CategoryRef("narrower", i)]]
LayoutCategories ==
    { LayoutCategory(b, n) : b \in 0..MaxBroader, n \in 0..MaxNarrower }

\* the layout keeping every broader and every narrower reference
GraphOf_unsliced(c) ==
    IF c = Null THEN Null
    ELSE LET parents == c[1].broader
             children == c[1].narrower
             parentYs == spreadY(Len(parents))
             childYs == spreadY(Len(children))
         IN  Some([parents |-> parents,
                   children |-> children,
                   nodes |->
                     <<[key |-> <<"center">>, label |-> c[1].label, id |-> c[1].id,
                        side |-> "center", x |-> cx, y |-> cy]>>
                     \o [i \in 1..Len(parents) |->
                           [key |-> <<"p-", parents[i].id>>, label |-> parents[i].label,
                            id |-> parents[i].id, side |-> "left",
                            x |-> leftX, y |-> parentYs[i]]]
                     \o [i \in 1..Len(children) |->
                           [key |-> <<"c-", children[i].id>>, label |-> children[i].label,
                            id |-> children[i].id, side |-> "right",
                            x |-> rightX, y |-> childYs[i]]],
                   edges |->
                     [i \in 1..Len(parents) |->
                        [from |-> [x |-> leftX, y |-> parentYs[i]],
                         to |-> [x |-> cx, y |-> cy]]]
                     \o [i \in 1..Len(children) |->
                           [from |-> [x |-> cx, y |-> cy],
                            to |-> [x |-> rightX, y |-> childYs[i]]]]])

\* const graph = useMemo(() => { ... }, [cat])
GraphOf(c) ==
    IF c = Null THEN Null
    ELSE LET parents == SliceTo(c[1].broader, 4)
             children == SliceTo(c[1].narrower, 6)
             parentYs == spreadY(Len(parents))
             childYs == spreadY(Len(children))
         IN  Some([parents |-> parents,
                   children |-> children,
                   nodes |->
                     <<[key |-> <<"center">>, label |-> c[1].label, id |-> c[1].id,
                        side |-> "center", x |-> cx, y |-> cy]>>
                     \o [i \in 1..Len(parents) |->
                           [key |-> <<"p-", parents[i].id>>, label |-> parents[i].label,
                            id |-> parents[i].id, side |-> "left",
                            x |-> leftX, y |-> parentYs[i]]]
                     \o [i \in 1..Len(children) |->
                           [key |-> <<"c-", children[i].id>>, label |-> children[i].label,
                            id |-> children[i].id, side |-> "right",
                            x |-> rightX, y |-> childYs[i]]],
                   edges |->
                     [i \in 1..Len(parents) |->
                        [from |-> [x |-> leftX, y |-> parentYs[i]],
                         to |-> [x |-> cx, y |-> cy]]]
                     \o [i \in 1..Len(children) |->
                           [from |-> [x |-> cx, y |-> cy],
                            to |-> [x |-> rightX, y |-> childYs[i]]]]])

\* setCat(c) and the render that follows it
SetLayoutCat(c) ==
    /\ layoutCat # Some(c)
    /\ layoutCat' = Some(c)
    /\ graph' = GraphOf(layoutCat')
    /\ UNCHANGED <<codecVars, apiVars, shareVars, appVars>>

\* setCat(null) at the start of the effect and the render that follows it
ResetLayoutCat ==
    /\ layoutCat # Null
    /\ layoutCat' = Null
    /\ graph' = GraphOf(layoutCat')
    /\ UNCHANGED <<codecVars, apiVars, shareVars, appVars>>

----------------------------------------------------------------------------
(* components/ShareBar.tsx *)

MaxCopies == 2
MaxAlerts == 2

\* window.location.href of the pages that render the widget
ShareHrefs == { <<"/category/", "A">>, <<"/entity/", "B">> }

\* the data URL QRCode.toDataURL resolves with
QrDataUrl(href) == <<"data:image/png", href>>

\* what the widget renders: the button, and the image with its hint when qr
\* is a non-empty string (lines 19-37)
ShareView ==
    IF sbHref = Null THEN {}
    ELSE {"copyButton"} \cup (IF qr # <<>> THEN {"qrImage", "qrHint"} ELSE {})

\* a sequence without its i-th element
RemoveAt(seq, i) == SubSeq(seq, 1, i - 1) \o SubSeq(seq, i + 1, Len(seq))

\* a page renders the widget: useState("") and the QR effect (lines 5-12)
MountShareBar(href) ==
    /\ sbHref = Null
    /\ sbHref' = Some(href)
    /\ qr' = <<>>
    /\ qrPending' = TRUE
    /\ sbLast' = "mount"
    /\ UNCHANGED <<copyPending, clipboard, alerts>>
    /\ UNCHANGED <<codecVars, apiVars, layoutVars, appVars>>

\* the page stops rendering the widget; the state of the instance is gone
\* and a QR promise that settles later finds nothing to set
UnmountShareBar ==
    /\ sbHref # Null
    /\ sbHref' = Null
    /\ qr' = <<>>
    /\ qrPending' = FALSE
    /\ sbLast' = "unmount"
    /\ UNCHANGED <<copyPending, clipboard, alerts>>
    /\ UNCHANGED <<codecVars, apiVars, layoutVars, appVars>>

\* QRCode.toDataURL(url, ...).then(setQr).catch(() => setQr(""))
QrSettle(ok) ==
    /\ sbHref # Null
    /\ qrPending
    /\ qrPending' = FALSE
    /\ qr' = IF ok THEN QrDataUrl(sbHref[1]) ELSE <<>>
    /\ sbLast' = IF ok THEN "qrOk" ELSE "qrFail"
    /\ UNCHANGED <<sbHref, copyPending, clipboard, alerts>>
    /\ UNCHANGED <<codecVars, apiVars, layoutVars, appVars>>

\* the "Copy link" button: copy() up to its await (lines 14-15)
Copy ==
    /\ sbHref # Null
    /\ Len(copyPending) < MaxCopies
    /\ copyPending' = Append(copyPending, sbHref[1])
    /\ sbLast' = "copy"
    /\ UNCHANGED <<sbHref, qr, qrPending, clipboard, alerts>>
    /\ UNCHANGED <<codecVars, apiVars, layoutVars, appVars>>

\* copy() that shows its confirmation whether or not the write succeeded
ClipboardSettle_alertAlways(i, ok) ==
    /\ i \in DOMAIN copyPending
    /\ alerts < MaxAlerts
    /\ copyPending' = RemoveAt(copyPending, i)
    /\ clipboard' = IF ok THEN Some(copyPending[i]) ELSE clipboard
    /\ alerts' = alerts + 1
    /\ sbLast' = IF ok THEN "copyOk" ELSE "copyFail"
    /\ UNCHANGED <<sbHref, qr, qrPending>>
    /\ UNCHANGED <<codecVars, apiVars, layoutVars, appVars>>

\* navigator.clipboard.writeText settles: copy() resumes after its await and
\* calls alert("Link copied!"), or its promise rejects with nothing handling
\* it (lines 15-16); the widget may have been unmounted meanwhile
ClipboardSettle(i, ok) ==
    /\ i \in DOMAIN copyPending
    /\ ok => alerts < MaxAlerts
    /\ copyPending' = RemoveAt(copyPending, i)
    /\ clipboard' = IF ok THEN Some(copyPending[i]) ELSE clipboard
    /\ alerts' = IF ok THEN alerts + 1 ELSE alerts
    /\ sbLast' = IF ok THEN "copyOk" ELSE "copyFail"
    /\ UNCHANGED <<sbHref, qr, qrPending>>
    /\ UNCHANGED <<codecVars, apiVars, layoutVars, appVars>>

----------------------------------------------------------------------------
(* The origin each fetch site sends its requests to *)

\* the search(q, kind, LIMIT, offset) call behind a request of the search page
SearchCallOf(r) == SearchCall(r.q, r.kind, LIMIT, r.offset)

\* the value of a query parameter of a request of lib/api.ts
QueryParam(query, name) ==
    LET i == CHOOSE i \in DOMAIN query : query[i][1] = name IN query[i][2]

\* API_BASE of the entities effect of CategoryPage.tsx and of typeFacets.tsx:
\* each has a fallback of its own when VITE_API_BASE is not configured
CategoryPageApiBase == IF apiBase = "" THEN "http://localhost:8000" ELSE apiBase
TypeFacetsApiBase == IF apiBase = "" THEN PageOrigin ELSE apiBase

RequestOrigin(r) ==
    CASE r.site = "search" -> ApiOrigin("search", apiBase)
      [] r.site \in {"category", "map"} -> ApiOrigin("getCategory", apiBase)
      [] r.site = "entities" ->
            IF r.path = "/api/category/{id}/entitiesByType"
            THEN CategoryPageApiBase
            ELSE ApiOrigin("getCategoryEntities", apiBase)
      [] r.site = "facets" -> TypeFacetsApiBase
      [] r.site = "entity" -> ApiOrigin("getEntity", apiBase)
      [] r.site = "related" -> ApiOrigin("getRelatedEntities", apiBase)

----------------------------------------------------------------------------
(* Specifications *)

InitRegistryLoaded ==
    /\ extensions = StartupExtensions
    /\ startupPc = Len(StartupExtensions)
    /\ registered = StartupExtensions
    /\ queried = [slot |-> "category.sidebar", result |-> <<>>]

InitSearchPage ==
    /\ qInput = <<>>
    /\ submittedQ = <<>>
    /\ kind = "all"
    /\ spLoading = FALSE
    /\ spErr = Null
    /\ results = NoResults
    /\ page = 1
    /\ total = 0
    /\ entityTotal = 0
    /\ categoryTotal = 0

InitCategoryPage ==
    /\ cat = Null
    /\ entities = NoEntities
    /\ cpLoading = TRUE
    /\ entitiesLoading = FALSE
    /\ cpErr = Null
    /\ selectedTypes = <<>>
    /\ facets = <<>>
    /\ tfErr = Null
    /\ tfLoading = TRUE
    /\ selected = <<>>
    /\ cmCat = Null
    /\ cmErr = Null

InitEntityPage ==
    /\ ent = Null
    /\ epLoading = TRUE
    /\ epErr = Null
    /\ items = NoItems
    /\ reLoading = TRUE
    /\ reErr = Null

\* no library function is being applied on its own
InitCodecIdle ==
    /\ codecUri = <<>>
    /\ codecId = Null
    /\ codecOut = Null
InitApiIdle ==
    /\ apiCall = Null
    /\ apiSent = <<>>
    /\ apiResult = Null
    /\ apiResponse = Null
InitLayoutIdle ==
    /\ layoutCat = Null
    /\ graph = Null
InitShareIdle ==
    /\ sbHref = Null
    /\ qr = <<>>
    /\ qrPending = FALSE
    /\ copyPending = <<>>
    /\ clipboard = Null
    /\ alerts = 0
    /\ sbLast = "init"
InitLibIdle == InitCodecIdle /\ InitApiIdle /\ InitLayoutIdle /\ InitShareIdle

InitNet ==
    /\ inflight = {}
    /\ lastOp = "init"
    /\ dispatched = Null
    /\ lastIssued = <<>>
    /\ lastSettled = "none"

\* the registry module on its own, from the moment it is first evaluated
InitRegistry ==
    /\ extensions = <<>>
    /\ startupPc = 0
    /\ registered = <<>>
    /\ queried = [slot |-> "category.sidebar", result |-> <<>>]
    /\ apiBase = ""
    /\ route = [page |-> "search", id |-> ""]
    /\ InitNet
    /\ head = <<>>
    /\ InitSearchPage
    /\ InitCategoryPage
    /\ InitEntityPage
    /\ InitLibIdle

NextRegistry ==
    \/ ImportExtensions
    \/ \E ext \in OtherExtensions : RegisterOther(ext)
    \/ \E slot \in ExtensionSlot : QueryExtensions(slot)

SpecRegistry == InitRegistry /\ [][NextRegistry]_vars

\* the application after main.tsx rendered "/": the registry is loaded and
\* the search page is mounted
InitApp ==
    /\ InitRegistryLoaded
    /\ apiBase \in {"", "http://api"}
    /\ route = [page |-> "search", id |-> ""]
    /\ InitNet
    /\ head = <<>>
    /\ InitSearchPage
    /\ InitCategoryPage
    /\ InitEntityPage
    /\ InitLibIdle

NextSearch ==
    \/ \E v \in TypedTexts : SetQInput(v)
    \/ DoSearch
    \/ \E k \in SearchKinds : SetKind(k)
    \/ PrevPage
    \/ NextPage
    \/ \E r \in inflight, status \in {200} \cup FailStatuses : SearchSettle(r, status)

SpecSearch == InitApp /\ [][NextSearch]_vars

Statuses == {200} \cup FailStatuses

\* the category page: opened from the search page, then re-used for other ids
NextCategory ==
    \/ \E id \in RouteIds : OpenCategory(id)
    \/ \E id \in RouteIds : ChangeCategory(id)
    \/ \E r \in inflight, status \in Statuses : CategorySettle(r, status)
    \/ \E r \in inflight, status \in Statuses : EntitiesSettle(r, status)
    \/ \E r \in inflight, status \in Statuses : FacetsSettle(r, status)
    \/ \E r \in inflight, status \in Statuses : MapSettle(r, status)
    \/ \E t \in Range(facets) : ToggleFacet(t)
    \/ ApplyFilter
    \/ ClearFilter

SpecCategory == InitApp /\ [][NextCategory]_vars

\* the entity page: opened from the search page, then re-used for other ids
NextEntity ==
    \/ \E id \in RouteIds : OpenEntity(id)
    \/ \E id \in RouteIds : ChangeEntity(id)
    \/ \E r \in inflight, status \in Statuses : EntitySettle(r, status)
    \/ \E r \in inflight, status \in Statuses : RelatedSettle(r, status)

SpecEntity == InitApp /\ [][NextEntity]_vars

\* the whole application, with navigation between its three routes
NextApp ==
    \/ NextSearch
    \/ NextCategory
    \/ NextEntity
    \/ OpenSearch

SpecApp == InitApp /\ [][NextApp]_vars

\* the application is not running: nothing is mounted and nothing is in flight
InitAppIdle ==
    /\ InitRegistryLoaded
    /\ apiBase = ""
    /\ route = [page |-> "search", id |-> ""]
    /\ InitNet
    /\ head = <<>>
    /\ InitSearchPage
    /\ InitCategoryPage
    /\ InitEntityPage

\* lib/codec.ts on its own: a URI is encoded, then the identifier is decoded
InitCodec ==
    /\ InitAppIdle
    /\ InitApiIdle
    /\ InitLayoutIdle
    /\ InitShareIdle
    /\ codecUri \in TestUris
    /\ codecId = Null
    /\ codecOut = Null

NextCodec ==
    \/ EncodeUri
    \/ DecodeId

SpecCodec == InitCodec /\ [][NextCodec]_vars

\* lib/api.ts on its own: one call of a client function and its response,
\* with and without a configured base URL
InitApiClient ==
    /\ InitRegistryLoaded
    /\ apiBase \in {"", "http://api"}
    /\ route = [page |-> "search", id |-> ""]
    /\ InitNet
    /\ head = <<>>
    /\ InitSearchPage
    /\ InitCategoryPage
    /\ InitEntityPage
    /\ InitCodecIdle
    /\ InitLayoutIdle
    /\ InitShareIdle
    /\ InitApiIdle

NextApiClient ==
    \/ \E c \in ApiCalls : ApiCall(c)
    \/ \E status \in ApiStatuses, body \in ApiBodies : ApiRespond(status, body)

SpecApiClient == InitApiClient /\ [][NextApiClient]_vars

\* the graph of extensions/CategoryMap.tsx on its own
InitLayout ==
    /\ InitAppIdle
    /\ InitCodecIdle
    /\ InitApiIdle
    /\ InitLayoutIdle
    /\ InitShareIdle

NextLayout ==
    \/ \E c \in LayoutCategories : SetLayoutCat(c)
    \/ ResetLayoutCat

SpecLayout == InitLayout /\ [][NextLayout]_vars

\* the category page of a deployment with a configured API base, with filter
\* events from the widget and from other code, on and off the category page
InitBroadcast ==
    /\ InitApp
    /\ apiBase = "http://api"

NextBroadcast ==
    \/ NextCategory
    \/ OpenSearch
    \/ \E types \in BroadcastTypes : BroadcastHeard(types)
    \/ \E types \in BroadcastTypes : BroadcastUnheard(types)

SpecBroadcast == InitBroadcast /\ [][NextBroadcast]_vars

\* components/ShareBar.tsx on its own
InitShare ==
    /\ InitAppIdle
    /\ InitCodecIdle
    /\ InitApiIdle
    /\ InitLayoutIdle
    /\ InitShareIdle

NextShare ==
    \/ \E href \in ShareHrefs : MountShareBar(href)
    \/ UnmountShareBar
    \/ \E ok \in BOOLEAN : QrSettle(ok)
    \/ Copy
    \/ \E i \in 1..MaxCopies, ok \in BOOLEAN : ClipboardSettle(i, ok)

SpecShare == InitShare /\ [][NextShare]_vars

----------------------------------------------------------------------------
(* Properties of the extension registry *)

\* the positions of the registrations made under a slot, in call order
SlotIndexes(slot) == { i \in DOMAIN registered : registered[i].slot = slot }

\* how many times a record occurs in a sequence
Occurrences(seq, e) == Cardinality({ i \in DOMAIN seq : seq[i] = e })

\* C8: getExtensions(slot) returns exactly the records registered under that
\* slot, in registration order (the k-th record registered under the slot is
\* the k-th record returned), the empty sequence for a slot without
\* registrations, and the value a call returned is the one of the registry at
\* that call; once extensions/index.tsx has run, category.sidebar yields
\* [type facets, category map] and entity.sidebar yields [related entities].
C8_GetExtensionsBySlot ==
    /\ \A slot \in ExtensionSlot :
         LET I == SlotIndexes(slot)
             r == getExtensions(slot)
         IN  /\ Len(r) = Cardinality(I)
             /\ \A i \in I : r[Cardinality({ j \in I : j <= i })] = registered[i]
             /\ (I = {} => r = <<>>)
    /\ (lastOp = "getExtensions" => queried.result = getExtensions(queried.slot))
    /\ (startupPc = Len(StartupExtensions) /\ Len(registered) = Len(StartupExtensions)
          => /\ getExtensions("category.sidebar") = <<TypeFacetsExt, CategoryMapExt>>
             /\ getExtensions("entity.sidebar") = <<RelatedEntitiesExt>>)

\* C8 witness: after startup and two more registrations, one under each slot,
\* a query of entity.sidebar returned two of the five records
C8_Witness ==
    /\ Len(registered) = 5
    /\ registered[4].slot = "category.sidebar"
    /\ registered[5].slot = "entity.sidebar"
    /\ lastOp = "getExtensions"
    /\ queried.slot = "entity.sidebar"
    /\ Len(queried.result) = 2

\* C9: the registry is append-only: a registration appends exactly the record
\* it was given at the end, no step removes or reorders a record, and a
\* getExtensions call leaves the registry as it was.
C9_AppendOnly ==
    [][ /\ Len(extensions') >= Len(extensions)
        /\ SubSeq(extensions', 1, Len(extensions)) = extensions
        /\ (registered' # registered =>
              extensions' = Append(extensions, registered'[Len(registered')]))
        /\ (lastOp' = "getExtensions" => extensions' = extensions) ]_vars

\* C9 witness: a query ran on a registry holding five records
C9_Witness ==
    /\ lastOp = "getExtensions"
    /\ Len(extensions) = 5
    /\ Len(queried.result) >= 3

\* C10: no de-duplication by identifier: every registration adds a record, also
\* one whose identifier is already present, and getExtensions of its slot
\* returns each record as many times as it was registered.
C10_NoDeduplication ==
    /\ Len(extensions) = Len(registered)
    /\ \A i \in DOMAIN registered :
         Occurrences(getExtensions(registered[i].slot), registered[i])
           = Occurrences(registered, registered[i])

\* C10 witness: the identifier of the type-facets extension was registered a
\* second time under category.sidebar, and the slot's list holds both records
C10_Witness ==
    \E i, j \in DOMAIN getExtensions("category.sidebar") :
        /\ i < j
        /\ getExtensions("category.sidebar")[i] = TypeFacetsExt
        /\ getExtensions("category.sidebar")[j].id = TypeFacetsExt.id

----------------------------------------------------------------------------
(* Properties of the search page *)

\* C2 (as claimed): every change of the submitted query, the kind or the page
\* number to a query of at least two characters starts exactly one request.
C2_OneRequestPerChange ==
    [][ (<<submittedQ, kind, page>>' # <<submittedQ, kind, page>>
           /\ Len(Trim(submittedQ')) >= 2)
          => Len(lastIssued') = 1 ]_vars

\* C3 (as claimed): once every issued request has settled the page has left
\* the loading state.
C3_SettledLeavesLoading ==
    (\A r \in inflight : r.site # "search") => ~spLoading

\* C4: while the submitted query has fewer than 2 characters after trimming,
\* results, totals and error are empty, no request of the page can still
\* commit, and the step that made or kept it short issued no request.
C4_ShortQueryNoRequest ==
    /\ [](Len(Trim(submittedQ)) < 2 =>
            /\ results = NoResults
            /\ total = 0 /\ entityTotal = 0 /\ categoryTotal = 0
            /\ spErr = Null
            /\ \A r \in inflight : r.site = "search" => r.cancelled)
    /\ [][Len(Trim(submittedQ')) < 2 => lastIssued' = <<>>]_vars

\* C4 witness: a one-character query was submitted while a search was in flight
C4_Witness ==
    /\ lastOp = "doSearch"
    /\ submittedQ = <<"a">>
    /\ \E r \in inflight : r.site = "search"

\* C5: a kind change sets the page to 1 and leaves the submitted and the typed
\* text as they were; afterwards the only request that may still commit is the
\* one for the unchanged submitted query, the new kind and offset 0, and it was
\* issued unless the query is short.
C5_KindChangeResetsPage ==
    [][ (lastOp' = "setKind" /\ kind' # kind) =>
          /\ page' = 1
          /\ submittedQ' = submittedQ
          /\ qInput' = qInput
          /\ \A r \in inflight' :
               (r.site = "search" /\ ~r.cancelled)
                 => r = SearchReq(Trim(submittedQ), kind', 0)
          /\ (Len(Trim(submittedQ)) >= 2
                => SearchReq(Trim(submittedQ), kind', 0) \in inflight') ]_vars

\* C5 witness: the kind was changed on a later page while the typed text
\* differed from the submitted query
C5_Witness ==
    /\ lastOp = "setKind"
    /\ Len(lastIssued) = 2
    /\ page = 1
    /\ Len(Trim(submittedQ)) >= 2
    /\ Trim(qInput) # submittedQ

\* C6: a step that edits the typed text starts no request and changes neither
\* the submitted query, the page, the kind, the results nor the totals; the
\* submitted query changes only in a submit, to the trimmed typed text, with the
\* page set to 1.
C6_TypingDoesNotFetch ==
    [][ /\ (qInput' # qInput =>
              /\ lastIssued' = <<>>
              /\ UNCHANGED <<inflight, submittedQ, page, kind, results,
                             total, entityTotal, categoryTotal>>)
        /\ (submittedQ' # submittedQ =>
              /\ lastOp' = "doSearch"
              /\ submittedQ' = Trim(qInput)
              /\ page' = 1) ]_vars

\* C6 witness: the text was edited while the search for another query was in flight
C6_Witness ==
    /\ lastOp = "setQInput"
    /\ Len(Trim(submittedQ)) >= 2
    /\ Trim(qInput) # submittedQ
    /\ spLoading
    /\ \E r \in inflight : r.site = "search" /\ ~r.cancelled

----------------------------------------------------------------------------
(* Properties of the fetch sites *)

\* C1: last-request-wins at every fetch site: a continuation of a request that
\* a newer trigger of its fetch site or an unmount has superseded changes
\* nothing any page or widget renders from (no result, no error, no loading
\* flag), and each fetch site has at most one request that may still commit.
C1_LastRequestWins ==
    /\ [][lastSettled' = "stale" => UNCHANGED uiVars]_vars
    /\ [](\A r1, r2 \in inflight :
            (r1.site = r2.site /\ ~r1.stale /\ ~r2.stale) => r1 = r2)

\* C1 witness: route id A, then B, then A again on the entity page; the
\* response of an earlier request arrived while another superseded request
\* and the request of the current id were still in flight
C1_Witness ==
    /\ route.page = "entity"
    /\ lastOp = "entitySettle"
    /\ lastSettled = "stale"
    /\ epLoading
    /\ \E r \in inflight : r.site = "entity" /\ r.stale
    /\ \E r \in inflight : r.site = "entity" /\ ~r.stale /\ r.id = route.id

\* C7: a filter broadcast (Apply with the checked types, Clear with none)
\* makes the page hold exactly the broadcast types, and issues exactly one
\* request, of the entities fetch site and for the current category: to the
\* by-type endpoint with the types joined by commas when there are some, to
\* the unfiltered entity-list endpoint when there are none.  No category
\* request is issued and the category shown stays.
C7_FilterBroadcastRefetchesEntities ==
    [][ lastOp' \in {"applyFilter", "clearFilter"} =>
          LET n == Len(selectedTypes')
              req == lastIssued'[1]
          IN  /\ n = Cardinality(Range(selectedTypes'))
              /\ Range(selectedTypes') =
                   IF lastOp' = "clearFilter" THEN {}
                   ELSE { t \in Range(facets) : IsChecked(selected, t) }
              /\ Len(lastIssued') = 1
              /\ req.site = "entities"
              /\ req.id = route.id
              /\ req \in inflight'
              /\ ~req.cancelled
              /\ IF n = 0
                 THEN req.path = "/api/category/{id}/entities" /\ req.types = <<>>
                 ELSE /\ req.path = "/api/category/{id}/entitiesByType"
                      /\ Len(req.types) = 2 * n - 1
                      /\ \A i \in 1..n : req.types[2 * i - 1] = selectedTypes'[i]
                      /\ \A i \in 1..(n - 1) : req.types[2 * i] = ","
              /\ \A r \in inflight' : r.site = "category" => r \in inflight
              /\ UNCHANGED <<cat, cpLoading>> ]_vars

\* C7 witness: Apply was pressed with both types checked, the second one first
C7_Witness ==
    /\ lastOp = "applyFilter"
    /\ selectedTypes = <<"t2", "t1">>
    /\ cat = Some(CategoryDetails(route.id))
    /\ \E r \in inflight : r.site = "entities" /\ ~r.cancelled
                             /\ r.types = <<"t2", ",", "t1">>

----------------------------------------------------------------------------
(* Properties of the identifier codec *)

\* C11: for every URI u (ASCII, non-ASCII, with path-reserved characters)
\* uriToId(u) does not throw and idToUri(uriToId(u)) equals u
C11_CodecRoundTrip ==
    /\ codecId # Null => codecId[1] # Thrown
    /\ codecOut # Null => codecOut[1] = codecUri

\* C11 witness: a URI with "/", a non-ASCII character of the basic plane
\* and a surrogate pair was encoded and decoded back
C11_Witness ==
    /\ codecOut # Null
    /\ 47 \in Range(codecUri)
    /\ \E i \in DOMAIN codecUri : codecUri[i] \in 128..55295
    /\ \E i \in DOMAIN codecUri : codecUri[i] \in HighSurrogates

\* A-Z a-z 0-9 - _
UrlSafeChars == (65..90) \cup (97..122) \cup (48..57) \cup {45, 95}

\* C12: the identifier uriToId produces contains only letters, digits, "-"
\* and "_": never "+", "/" or "=" padding
C12_IdIsUrlSafe ==
    codecId # Null => \A i \in DOMAIN codecId[1] : codecId[1][i] \in UrlSafeChars

\* C12 witness: an identifier whose base64 form had "+", "/" and padding,
\* so that it holds "-" and "_" and its length is no multiple of 4
C12_Witness ==
    /\ codecId # Null
    /\ 45 \in Range(codecId[1])
    /\ 95 \in Range(codecId[1])
    /\ Len(codecId[1]) % 4 # 0

----------------------------------------------------------------------------
(* Properties of the API client *)

\* C13: every call of a client function sends exactly one request and never
\* a second one; a response that is not ok rejects the call with an Error
\* carrying the status, and an ok response fulfils it with the parsed body
C13_OneRequestPerCall ==
    apiCall # Null =>
        /\ Len(apiSent) = 1
        /\ apiResponse # Null =>
              LET res == apiResponse[1] IN
              /\ apiResult # Null
              /\ ~ResponseOk(res.status) =>
                    apiResult[1] = Rejected("Error", ApiFailure(apiCall[1].fn), res.status)
              /\ (ResponseOk(res.status) /\ res.json # NotJson) =>
                    apiResult[1] = Fulfilled(res.json)

\* C14: with no API base URL configured, every request goes to the origin
\* of the page and no fetch site fails before its request is sent
C14_UnconfiguredBaseIsSameOrigin ==
    apiBase = "" =>
        /\ \A r \in inflight : RequestOrigin(r) = PageOrigin
        /\ cpErr # InvalidUrl
        /\ reErr # InvalidUrl

----------------------------------------------------------------------------
(* Properties of the sidebar extensions *)

\* C15: a failed fetch of the type-facets, category-map or related-entities
\* extension sets that extension's error state and changes neither a
\* sibling extension nor the data, loading or error state of the host page
C15_ExtensionFailureIsolated ==
    [][ /\ (lastOp' = "facetsSettle" /\ tfErr' # tfErr) =>
              UNCHANGED <<categoryVars, mapVars, entityTree, searchVars, facets, selected>>
        /\ (lastOp' = "mapSettle" /\ cmErr' # cmErr) =>
              UNCHANGED <<categoryVars, facetsVars, entityTree, searchVars, cmCat>>
        /\ (lastOp' = "relatedSettle" /\ reErr' # reErr) =>
              UNCHANGED <<entityVars, categoryTree, searchVars, items>> ]_vars

\* C15 witness: the facets fetch has just failed while the category page
\* shows its category and the category map shows its graph
C15_Witness ==
    /\ lastOp = "facetsSettle"
    /\ tfErr # Null
    /\ cat # Null
    /\ cpErr = Null
    /\ ~cpLoading
    /\ cmCat # Null
    /\ cmErr = Null

\* the types whose checkbox is shown checked
CheckedSet(sel) == { t \in Range(facets) : IsChecked(sel, t) }

\* C16: toggling a checkbox changes only the checked set of the widget and
\* broadcasts nothing; Apply broadcasts exactly the checked types; Clear
\* empties the checked set and broadcasts the empty list
C16_FacetsBroadcast ==
    [][ /\ lastOp' = "toggleFacet" =>
              /\ dispatched' = Null
              /\ \E t \in Range(facets) :
                    CheckedSet(selected') \in {CheckedSet(selected) \cup {t},
                                              CheckedSet(selected) \ {t}}
              /\ CheckedSet(selected') # CheckedSet(selected)
              /\ UNCHANGED <<inflight, categoryVars, facets, tfErr, tfLoading, mapVars,
                             searchVars, entityTree>>
        /\ lastOp' = "applyFilter" =>
              /\ dispatched' # Null
              /\ Range(dispatched'[1]) = CheckedSet(selected)
              /\ Len(dispatched'[1]) = Cardinality(CheckedSet(selected))
              /\ selected' = selected
        /\ lastOp' = "clearFilter" =>
              /\ dispatched' = Some(<<>>)
              /\ CheckedSet(selected') = {}
        /\ dispatched' # Null => lastOp' \in {"applyFilter", "clearFilter"} ]_vars

\* C16 witness: Apply was pressed with one of the two types checked, after
\* the other one had been checked and unchecked again
C16_Witness ==
    /\ lastOp = "applyFilter"
    /\ dispatched = Some(<<"t2">>)
    /\ Len(selected) = 2
    /\ CheckedSet(selected) = {"t2"}

\* the position of a node of the graph
NodeAt(node) == [x |-> node.x, y |-> node.y]

\* C17: for b broader and n narrower references the graph has 1 centre node,
\* min(b,4) parent nodes (the first 4 broader, on the left), min(n,6) child
\* nodes (the first 6 narrower, on the right) and min(b,4)+min(n,6) edges,
\* one per parent and one per child, each joining that node and the centre
C17_CategoryMapLayout ==
    layoutCat # Null =>
        /\ graph # Null
        /\ LET c == layoutCat[1]
               g == graph[1]
               np == Min(Len(c.broader), 4)
               nc == Min(Len(c.narrower), 6)
           IN  /\ Len(g.nodes) = 1 + np + nc
               /\ g.nodes[1].side = "center"
               /\ g.nodes[1].id = c.id
               /\ \A i \in 1..np :
                     /\ g.nodes[1 + i].side = "left"
                     /\ g.nodes[1 + i].id = c.broader[i].id
                     /\ g.nodes[1 + i].x < g.nodes[1].x
               /\ \A j \in 1..nc :
                     /\ g.nodes[1 + np + j].side = "right"
                     /\ g.nodes[1 + np + j].id = c.narrower[j].id
                     /\ g.nodes[1 + np + j].x > g.nodes[1].x
               /\ Len(g.edges) = np + nc
               /\ \A i \in 1..np :
                     /\ g.edges[i].from = NodeAt(g.nodes[1 + i])
                     /\ g.edges[i].to = NodeAt(g.nodes[1])
               /\ \A j \in 1..nc :
                     /\ g.edges[np + j].from = NodeAt(g.nodes[1])
                     /\ g.edges[np + j].to = NodeAt(g.nodes[1 + np + j])

\* C17 witness: a category with more than 4 broader and more than 6 narrower
\* references was laid out
C17_Witness ==
    /\ layoutCat # Null
    /\ graph # Null
    /\ Len(layoutCat[1].broader) > 4
    /\ Len(layoutCat[1].narrower) > 6
    /\ Len(graph[1].nodes) = 11
    /\ Len(graph[1].edges) = 10

----------------------------------------------------------------------------
(* Properties of the pagination of the search page *)

\* C18: every search request carries limit 20 and offset (page - 1) * 20,
\* the first page of a submitted query is asked with offset 0, and once a
\* response for page 1 reporting a total above 20 has ended the loading, the
\* pagination controls are shown with Next enabled
C18_SearchPagination ==
    /\ [](\A r \in inflight :
            (r.site = "search" /\ ~r.cancelled) =>
                LET query == ApiRequest(SearchCallOf(r), apiBase).query
                IN  /\ QueryParam(query, "limit") = 20
                    /\ QueryParam(query, "offset") = (page - 1) * 20)
    /\ [][ /\ \A i \in DOMAIN lastIssued' :
                lastIssued'[i].site = "search" =>
                    /\ QueryParam(ApiQuery(SearchCallOf(lastIssued'[i])), "limit") = 20
                    /\ lastIssued'[i].offset % 20 = 0
           /\ (lastOp' = "doSearch" /\ lastIssued' # <<>>) =>
                /\ page' = 1
                /\ lastIssued' = <<SearchReq(submittedQ', kind', 0)>>
           /\ (lastOp' = "searchSettle" /\ lastSettled' = "live" /\ spErr' = Null
                 /\ page' = 1 /\ total' > 20) =>
                /\ ~spLoading'
                /\ PaginationShown'
                /\ ~(page' >= totalPages' \/ spLoading') ]_vars

\* C18 witness: the response for page 1 of "ab" reported a total of 45
C18_Witness ==
    /\ lastOp = "searchSettle"
    /\ lastSettled = "live"
    /\ page = 1
    /\ total = 45
    /\ totalPages = 3
    /\ PaginationShown
    /\ ~spLoading

----------------------------------------------------------------------------
(* Properties of the JSON-LD metadata *)

----------------------------------------------------------------------------
(* Properties of empty results *)

\* C20: a successful response to a list request (search results, category
\* entities, type facets, related entities), the empty list included, changes no
\* error state of any page or widget; and the related-entities widget, while
\* mounted, shows "No related entities found." exactly when it is not loading,
\* has no error and has no items
C20_EmptyResultIsNotAnError ==
    /\ [][ \A r \in inflight :
              (\/ SearchSettle(r, 200)
               \/ EntitiesSettle(r, 200)
               \/ FacetsSettle(r, 200)
               \/ RelatedSettle(r, 200))
              => UNCHANGED <<spErr, cpErr, epErr, tfErr, cmErr, reErr>> ]_vars
    /\ [](RelatedMounted =>
             (RelatedView.fallback <=> (~reLoading /\ reErr = Null /\ items = NoItems)))
    /\ [](RelatedView.fallback => ~RelatedView.loading /\ ~RelatedView.error /\ ~RelatedView.list)

\* C20 witness: the related entities of entity "B" arrived as an empty list;
\* the widget shows its fallback message and no error
C20_Witness ==
    /\ route = [page |-> "entity", id |-> "B"]
    /\ lastOp = "relatedSettle"
    /\ lastSettled = "live"
    /\ RelatedMounted
    /\ items = NoItems
    /\ reErr = Null /\ epErr = Null
    /\ RelatedView.fallback

----------------------------------------------------------------------------
(* Properties of the loading flag and the page number of the search page *)

\* C22 (as claimed): on the search page, whenever the loading flag is true a
\* search request that may still commit is in flight; after a submit of a
\* query shorter than 2 characters the loading flag is false
C22_LoadingMeansRequestInFlight ==
    /\ [](route.page = "search" /\ spLoading
            => \E r \in inflight : r.site = "search" /\ ~r.cancelled)
    /\ [][(lastOp' = "doSearch" /\ ShortQuery(submittedQ')) => ~spLoading']_vars

\* C23 (as claimed): on the search page the page number is at least 1 and at
\* most max(1, ceil(total / 20)) for the total currently displayed
C23_PageWithinTotalPages ==
    route.page = "search" => (1 <= page /\ page <= totalPages)

----------------------------------------------------------------------------
(* Properties of the category page across route changes *)

\* C24 (as claimed): when the route id changes to another category the active
\* type filter is cleared: the entity-list request issued for the new category
\* is unfiltered, and the page's filter equals the checked types of the
\* re-mounted type-facets widget
C24_IdChangeClearsFilter ==
    [][ lastOp' = "changeCategory" =>
          /\ selectedTypes' = <<>>
          /\ \A i \in DOMAIN lastIssued' :
                lastIssued'[i].site = "entities" => lastIssued'[i].types = <<>>
          /\ selectedTypes' = CheckedTypes(selected') ]_vars

\* C25 (as claimed): whenever the category page renders the metadata of a
\* category, the entity list it renders is empty or was returned by a request
\* made for that category's id
C25_EntitiesOfShownCategory ==
    (route.page = "category" /\ CategoryShown(cat, cpErr))
        => (entities = NoEntities \/ entities.id = cat[1].id)

----------------------------------------------------------------------------
(* Properties of the entity page across route changes *)

\* C26 (as claimed): on the entity page every linked-data script in
\* document.head is the "Loading" placeholder or describes the entity the
\* route names; after the route id changed no script of the previous entity
\* remains
C26_JsonLdOfRouteEntity ==
    /\ [](route.page = "entity" =>
            \A i \in DOMAIN head :
                head[i].textContent \in
                    { JsonStringify(LoadingJsonLd),
                      JsonStringify(EntityJsonLd(Some(EntityDetails(route.id)),
                                                 route).data) })
    /\ [][ lastOp' = "changeEntity" =>
              \A i \in DOMAIN head' :
                  head'[i].id # <<"jsonld-", <<"entity-", route.id>>>> ]_vars

----------------------------------------------------------------------------
(* Properties of the filter broadcasts *)

----------------------------------------------------------------------------
(* Properties of the share widget *)

\* C21: an alert is shown only by a clipboard write that succeeded, one per
\* write, and it is "Link copied!" for the address written; a rejected write
\* shows no alert, changes nothing the widget renders and nothing of its
\* state; a failed QR generation leaves qr empty, so no image is rendered; the
\* widget never renders anything but its button and its QR image with hint
C21_ShareFailuresAreSilent ==
    /\ [][ alerts' # alerts =>
              /\ sbLast' = "copyOk"
              /\ alerts' = alerts + 1
              /\ clipboard' # Null
              /\ \E i \in DOMAIN copyPending :
                    /\ clipboard' = Some(copyPending[i])
                    /\ copyPending' = RemoveAt(copyPending, i) ]_vars
    /\ [][ sbLast' = "copyFail" =>
              /\ UNCHANGED <<sbHref, qr, qrPending, clipboard, alerts>>
              /\ ShareView' = ShareView ]_vars
    /\ [][ sbLast' = "qrFail" =>
              /\ qr' = <<>>
              /\ "qrImage" \notin ShareView'
              /\ UNCHANGED <<sbHref, copyPending, clipboard, alerts>> ]_vars
    /\ [](ShareView \subseteq {"copyButton", "qrImage", "qrHint"})
    /\ []("qrImage" \in ShareView <=> (sbHref # Null /\ qr # <<>>))

\* C21 witness: a clipboard write was rejected after another one had
\* succeeded, in a widget whose QR generation had failed
C21_Witness ==
    /\ sbLast = "copyFail"
    /\ sbHref # Null
    /\ alerts = 1
    /\ clipboard = sbHref
    /\ ~qrPending
    /\ qr = <<>>
    /\ ShareView = {"copyButton"}

====
